---- MODULE Spec2Model ----
(***************************************************************************)
(* A model of escpos-viewer-pro's core:                                    *)
(*   - parse_escpos (src/src/escpos.rs): the ESC/POS byte-stream decoder,  *)
(*     one action per arm of its scan loop;                                *)
(*   - TcpCapture / read_one_job (src/src/tcp_capture.rs): the listener    *)
(*     thread, its accept loop and the per-connection read loop.           *)
(* Indices are 0-based as in the source: At(k) is data[k] of the Rust code.*)
(***************************************************************************)
EXTENDS Integers, Sequences, FiniteSets, TLC

VARIABLES
    \* ---- parse_escpos ----
    data,            \* the input buffer (&[u8])
    codepage,        \* the text-encoding selector
    i,               \* the cursor
    state,           \* the live PrinterState
    qr_model,
    qr_module_size,
    qr_ecc,
    qr_data,
    commands,        \* Vec<ParsedCommand>: pairs <<snapshot, command>>
    panicked,        \* an index or a slice left the buffer (Rust panics)
    iters,           \* history: iterations of the scan loop so far
    rd,              \* history: the indices of data read by the last iteration
    sl,              \* history: the ranges <<start, end>> sliced by the last iteration
    op,              \* history: the arm the last iteration took
    parsed_commands, \* job.parsed_commands: what the previous call of parse_escpos returned
    parsed_with,     \* history: the selector of that call ("none": there was none)
    script,          \* history: the QR functions the buffer was built from
    \* ---- TcpCapture ----
    capture,         \* the TcpCapture value: "none", "running", "bind_failed", "stopped", "dropped"
    stop,            \* Arc<AtomicBool>
    join,            \* Option<JoinHandle>: "None" or "Some"
    apc,             \* the caller of stop(): "idle" or "joining"
    lpc,             \* the listener thread: "none", "top", "accept", "read", "exited"
    cur,             \* the connection read_one_job is reading (0: none)
    buf,             \* read_one_job's buf
    chan,            \* the mpsc channel: jobs sent and not yet received
    delivered,       \* history: the jobs try_recv_all has returned, in order
    backlog,         \* the listening socket's queue of connections not yet accepted
    conns,           \* per connection: the peer's side and the socket
    \* ---- the application (app.rs) ----
    tcp_enabled,     \* the capture checkbox
    tcp_last_error,  \* Option<String>: "None" or "Some"
    binds,           \* history: calls of TcpCapture::start so far
    last,            \* history: the handler that ran last: "init", "tick", "checkbox"
    port_taken,      \* another program is listening on 127.0.0.1:9100
    \* ---- render_barcode (app.rs) ----
    enc_data,        \* the barcode payload (&[u8])
    enc_m,           \* the symbology selector m of GS k; -1 before the call
    enc_out,         \* what the encoder returned: an Option<(Vec<u8>, String)>
    \* ---- the job history (app.rs) ----
    jobs,            \* Vec<JobEntry>: the ids of the jobs, oldest first
    active_job_idx,  \* Option<usize>
    next_job_id,     \* the id the next job gets
    max_jobs,        \* the "Max jobs" slider
    auto_prune_by_age, \* the "prune by age" checkbox
    job_op           \* history: the job-history operation that ran last

parseVars == <<data, codepage, i, state, qr_model, qr_module_size, qr_ecc,
               qr_data, commands, panicked, iters, rd, sl, op,
               parsed_commands, parsed_with, script>>

captureVars == <<capture, stop, join, apc, lpc, cur, buf, chan, delivered, backlog, conns>>

appVars == <<tcp_enabled, tcp_last_error, binds, last, port_taken>>

encVars == <<enc_data, enc_m, enc_out>>

jobVars == <<jobs, active_job_idx, next_job_id, max_jobs, auto_prune_by_age, job_op>>

vars == <<parseVars, captureVars, appVars, encVars, jobVars>>

\* what the decoder, and what the capture, leave alone
nonParseVars == <<captureVars, appVars, encVars, jobVars>>
nonCaptureVars == <<parseVars, appVars, encVars, jobVars>>

(***************************************************************************)
(* Bounds of the model.                                                    *)
(***************************************************************************)
MaxWide == 2     \* opcode fragments in a buffer drawn from the wide library
MaxDeep == 4     \* opcode fragments in a buffer drawn from the deep library
MaxConns == 2    \* connections made to the listener
MaxSend == 2     \* bytes a peer sends on its connection
MaxBinds == 4    \* calls of TcpCapture::start by the application
MaxCode == 3     \* bytes of a Code128 payload drawn from CodeBytes
MaxEanVar == 2   \* leading digits of an EAN payload that range over 0..9
MaxItf == 4      \* bytes of an ITF payload drawn from ItfBytes
MaxJobId == 4    \* jobs pushed to the history

(***************************************************************************)
(* Bytes the decoder dispatches on.                                        *)
(***************************************************************************)
LF == 10
CR == 13
ESC == 27
GS == 29
SPACE == 32
NUL == 0

Min(a, b) == IF a < b THEN a ELSE b
Max(a, b) == IF a > b THEN a ELSE b

RECURSIVE ConcatRange(_, _, _)
\* ss[a] \o .. \o ss[b]
ConcatRange(ss, a, b) ==
    IF a > b THEN <<>>
    ELSE IF a = b THEN ss[a]
    ELSE ConcatRange(ss, a, (a + b) \div 2) \o ConcatRange(ss, (a + b) \div 2 + 1, b)

Concat(ss) == ConcatRange(ss, 1, Len(ss))

SeqsUpTo(S, n) == UNION {[1..k -> S] : k \in 0..n}

\* data[k]; reading outside the buffer panics in Rust, which Apply records.
At(k) == IF k >= 0 /\ k < Len(data) THEN data[k + 1] ELSE 0

\* data[a..b] (a <= b <= len in every use that does not panic)
Slice(a, b) == SubSeq(data, a + 1, Min(b, Len(data)))

(***************************************************************************)
(* model.rs                                                                *)
(***************************************************************************)
DefaultState ==
    [is_bold |-> FALSE, is_underline |-> FALSE, is_reverse |-> FALSE,
     alignment |-> "Left", font_scale |-> 1,
     char_width_mul |-> 1, char_height_mul |-> 1,
     cursor_x |-> "None", line_spacing |-> "None",
     barcode_hri |-> "None", barcode_height |-> 80,
     barcode_module_width |-> 3, barcode_hri_font |-> 0]

(***************************************************************************)
(* decode_text (escpos.rs:6-25).  A String is the sequence of its code     *)
(* points.                                                                 *)
(***************************************************************************)
\* Length of the well-formed UTF-8 sequence that starts bs[k], 0 if none
\* (the acceptance table of std::str::from_utf8).
Utf8Width(bs, k) ==
    LET b0 == bs[k]
        n == Len(bs)
        c(j, lo, hi) == k + j <= n /\ bs[k + j] >= lo /\ bs[k + j] <= hi
    IN  IF b0 < 128 THEN 1
        ELSE IF b0 >= 194 /\ b0 <= 223 THEN (IF c(1, 128, 191) THEN 2 ELSE 0)
        ELSE IF b0 = 224 THEN (IF c(1, 160, 191) /\ c(2, 128, 191) THEN 3 ELSE 0)
        ELSE IF b0 = 237 THEN (IF c(1, 128, 159) /\ c(2, 128, 191) THEN 3 ELSE 0)
        ELSE IF b0 >= 225 /\ b0 <= 239
             THEN (IF c(1, 128, 191) /\ c(2, 128, 191) THEN 3 ELSE 0)
        ELSE IF b0 = 240
             THEN (IF c(1, 144, 191) /\ c(2, 128, 191) /\ c(3, 128, 191) THEN 4 ELSE 0)
        ELSE IF b0 >= 241 /\ b0 <= 243
             THEN (IF c(1, 128, 191) /\ c(2, 128, 191) /\ c(3, 128, 191) THEN 4 ELSE 0)
        ELSE IF b0 = 244
             THEN (IF c(1, 128, 143) /\ c(2, 128, 191) /\ c(3, 128, 191) THEN 4 ELSE 0)
        ELSE 0

Utf8Scalar(bs, k, w) ==
    IF w = 1 THEN bs[k]
    ELSE IF w = 2 THEN (bs[k] % 32) * 64 + (bs[k + 1] % 64)
    ELSE IF w = 3 THEN (bs[k] % 16) * 4096 + (bs[k + 1] % 64) * 64 + (bs[k + 2] % 64)
    ELSE (bs[k] % 8) * 262144 + (bs[k + 1] % 64) * 4096
         + (bs[k + 2] % 64) * 64 + (bs[k + 3] % 64)

RECURSIVE Utf8From(_, _)
\* <<ok, code points>> of bs[k..]
Utf8From(bs, k) ==
    IF k > Len(bs) THEN <<TRUE, <<>>>>
    ELSE LET w == Utf8Width(bs, k)
         IN  IF w = 0 THEN <<FALSE, <<>>>>
             ELSE LET rest == Utf8From(bs, k + w)
                  IN  <<rest[1], <<Utf8Scalar(bs, k, w)>> \o rest[2]>>

\* encoding_rs::WINDOWS_1252: 0x80..0x9F through the table, the rest as Latin-1.
Cp1252High ==
    <<8364, 129, 8218, 402, 8222, 8230, 8224, 8225, 710, 8240, 352, 8249, 338, 141, 381, 143,
      144, 8216, 8217, 8220, 8221, 8226, 8211, 8212, 732, 8482, 353, 8250, 339, 157, 382, 376>>

Windows1252Char(b) == IF b >= 128 /\ b <= 159 THEN Cp1252High[b - 127] ELSE b

\* oem_cp's Cp437 decoding table for 0x80..0xFF.
Cp437High ==
    <<199, 252, 233, 226, 228, 224, 229, 231, 234, 235, 232, 239, 238, 236, 196, 197,
      201, 230, 198, 244, 246, 242, 251, 249, 255, 214, 220, 162, 163, 165, 8359, 402,
      225, 237, 243, 250, 241, 209, 170, 186, 191, 8976, 172, 189, 188, 161, 171, 187,
      9617, 9618, 9619, 9474, 9508, 9569, 9570, 9558, 9557, 9571, 9553, 9559, 9565, 9564, 9563, 9488,
      9492, 9524, 9516, 9500, 9472, 9532, 9566, 9567, 9562, 9556, 9577, 9574, 9568, 9552, 9580, 9575,
      9576, 9572, 9573, 9561, 9560, 9554, 9555, 9579, 9578, 9496, 9484, 9608, 9604, 9612, 9616, 9600,
      945, 223, 915, 960, 931, 963, 181, 964, 934, 920, 937, 948, 8734, 966, 949, 8745,
      8801, 177, 8805, 8804, 8992, 8993, 247, 8776, 176, 8729, 183, 8730, 8319, 178, 9632, 160>>

Cp437Char(b) == IF b >= 128 THEN Cp437High[b - 127] ELSE b

\* oem_cp's Cp850 decoding table for 0x80..0xFF.
Cp850High ==
    <<199, 252, 233, 226, 228, 224, 229, 231, 234, 235, 232, 239, 238, 236, 196, 197,
      201, 230, 198, 244, 246, 242, 251, 249, 255, 214, 220, 248, 163, 216, 215, 402,
      225, 237, 243, 250, 241, 209, 170, 186, 191, 174, 172, 189, 188, 161, 171, 187,
      9617, 9618, 9619, 9474, 9508, 193, 194, 192, 169, 9571, 9553, 9559, 9565, 162, 165, 9488,
      9492, 9524, 9516, 9500, 9472, 9532, 227, 195, 9562, 9556, 9577, 9574, 9568, 9552, 9580, 164,
      240, 208, 202, 203, 200, 305, 205, 206, 207, 9496, 9484, 9608, 9604, 166, 204, 9600,
      211, 223, 212, 210, 245, 213, 181, 254, 222, 218, 219, 217, 253, 221, 175, 180,
      173, 177, 8215, 190, 182, 167, 247, 184, 176, 168, 183, 185, 179, 178, 9632, 160>>

Cp850Char(b) == IF b >= 128 THEN Cp850High[b - 127] ELSE b

DecodeWindows1252(bs) == [k \in 1..Len(bs) |-> Windows1252Char(bs[k])]
DecodeCp437(bs) == [k \in 1..Len(bs) |-> Cp437Char(bs[k])]
DecodeCp850(bs) == [k \in 1..Len(bs) |-> Cp850Char(bs[k])]

\* a decode_text without the Windows-1252 fallback: a byte beyond ASCII of a
\* run that is not UTF-8 becomes U+FFFD
decode_text_no_fallback(bytes, cp) ==
    IF cp = "Utf8Lossy"
    THEN LET u == Utf8From(bytes, 1)
         IN  IF u[1] THEN u[2]
             ELSE [k \in 1..Len(bytes) |-> IF bytes[k] >= 128 THEN 65533 ELSE bytes[k]]
    ELSE IF cp = "Cp437" THEN DecodeCp437(bytes)
    ELSE IF cp = "Cp850" THEN DecodeCp850(bytes)
    ELSE DecodeWindows1252(bytes)
decode_text(bytes, cp) ==
    IF cp = "Utf8Lossy"
    THEN LET u == Utf8From(bytes, 1)
         IN  IF u[1] THEN u[2] ELSE DecodeWindows1252(bytes)
    ELSE IF cp = "Cp437" THEN DecodeCp437(bytes)
    ELSE IF cp = "Cp850" THEN DecodeCp850(bytes)
    ELSE DecodeWindows1252(bytes)

(***************************************************************************)
(* parse_escpos (escpos.rs:28-409).  Each arm of the scan loop is an       *)
(* operator giving the iteration's outcome: the new cursor (ni), the new   *)
(* live state (st), the commands pushed (emit), the QR assembly variables  *)
(* (qm, qs, qe, qd), the indices read (reads) and the ranges sliced (sls). *)
(***************************************************************************)
Outcome(ni, st, emit, reads) ==
    [ni |-> ni, st |-> st, emit |-> emit,
     qm |-> qr_model, qs |-> qr_module_size, qe |-> qr_ecc, qd |-> qr_data,
     reads |-> reads, sls |-> {}]

Cmd(st, c) == <<st, c>>

\* `if i + k < data.len()`
HasByteOffByOne(k) == i + k <= Len(data)
HasByte(k) == i + k < Len(data)

\* 0x0A => push Newline; i += 1
ArmLF == Outcome(i + 1, state, <<Cmd(state, [kind |-> "Newline"])>>, {i})

\* 0x0D => i += 1
ArmCR == Outcome(i + 1, state, <<>>, {i})

\* ESC / GS as the last byte: i += 1
ArmPrefixAloneStuck == Outcome(i, state, <<>>, {i})
ArmPrefixAlone == Outcome(i + 1, state, <<>>, {i})

\* ESC @: `state = PrinterState::default()` and the QR assembly state reset
ResetStateKeepsSize ==
    [DefaultState EXCEPT !.char_width_mul = state.char_width_mul,
                         !.char_height_mul = state.char_height_mul,
                         !.font_scale = state.font_scale]
ResetState == DefaultState

\* ESC @ that pushes the Init command after the state was reset
ArmEscInitPushesAfterReset ==
    [Outcome(i + 2, ResetState, <<Cmd(ResetState, [kind |-> "Init"])>>, {i, i + 1})
        EXCEPT !.qm = 2, !.qs = 4, !.qe = 48, !.qd = <<>>]
ArmEscInit ==
    [Outcome(i + 2, ResetState, <<Cmd(state, [kind |-> "Init"])>>, {i, i + 1})
        EXCEPT !.qm = 2, !.qs = 4, !.qe = 48, !.qd = <<>>]

\* ESC E n
ArmEscBold ==
    IF HasByte(2)
    THEN LET val == At(i + 2)
             st == [state EXCEPT !.is_bold = (val = 1)]
         IN  Outcome(i + 3, st, <<Cmd(st, [kind |-> "Bold", on |-> st.is_bold])>>,
                     {i, i + 1, i + 2})
    ELSE Outcome(i + 2, state, <<>>, {i, i + 1})

\* ESC a n
AlignOf(val) ==
    IF val \in {1, 49} THEN "Center" ELSE IF val \in {2, 50} THEN "Right" ELSE "Left"

ArmEscAlign ==
    IF HasByte(2)
    THEN LET st == [state EXCEPT !.alignment = AlignOf(At(i + 2))]
         IN  Outcome(i + 3, st, <<Cmd(st, [kind |-> "Align", align |-> st.alignment])>>,
                     {i, i + 1, i + 2})
    ELSE Outcome(i + 2, state, <<>>, {i, i + 1})

\* ESC <other> that also skips the byte after the opcode
ArmEscUnknownSkipsArgument ==
    Outcome(i + 3, state, <<Cmd(state, [kind |-> "EscUnknown", byte |-> At(i + 1)])>>,
            {i, i + 1})
\* ESC <other>
ArmEscUnknown ==
    Outcome(i + 2, state, <<Cmd(state, [kind |-> "EscUnknown", byte |-> At(i + 1)])>>,
            {i, i + 1})

\* GS H n
HriOf(n) ==
    IF n = 1 THEN "Above" ELSE IF n = 2 THEN "Below" ELSE IF n = 3 THEN "Both" ELSE "None"

ArmGsHriPositionShort ==
    IF HasByte(2)
    THEN LET st == [state EXCEPT !.barcode_hri = HriOf(At(i + 2))]
         IN  Outcome(i + 2, st,
                     <<Cmd(st, [kind |-> "BarcodeHriPosition", pos |-> st.barcode_hri])>>,
                     {i, i + 1, i + 2})
    ELSE Outcome(i + 2, state, <<>>, {i, i + 1})
ArmGsHriPosition ==
    IF HasByte(2)
    THEN LET st == [state EXCEPT !.barcode_hri = HriOf(At(i + 2))]
         IN  Outcome(i + 3, st,
                     <<Cmd(st, [kind |-> "BarcodeHriPosition", pos |-> st.barcode_hri])>>,
                     {i, i + 1, i + 2})
    ELSE Outcome(i + 2, state, <<>>, {i, i + 1})

\* GS h n that stores n as it comes
ArmGsBarcodeHeightUnclamped ==
    IF HasByte(2)
    THEN LET st == [state EXCEPT !.barcode_height = At(i + 2)]
         IN  Outcome(i + 3, st,
                     <<Cmd(st, [kind |-> "BarcodeHeight", n |-> st.barcode_height])>>,
                     {i, i + 1, i + 2})
    ELSE Outcome(i + 2, state, <<>>, {i, i + 1})
\* GS h n
ArmGsBarcodeHeight ==
    IF HasByte(2)
    THEN LET st == [state EXCEPT !.barcode_height = Max(At(i + 2), 1)]
         IN  Outcome(i + 3, st,
                     <<Cmd(st, [kind |-> "BarcodeHeight", n |-> st.barcode_height])>>,
                     {i, i + 1, i + 2})
    ELSE Outcome(i + 2, state, <<>>, {i, i + 1})

\* GS w n
ArmGsBarcodeModuleWidth ==
    IF HasByte(2)
    THEN LET st == [state EXCEPT !.barcode_module_width = Max(At(i + 2), 1)]
         IN  Outcome(i + 3, st,
                     <<Cmd(st, [kind |-> "BarcodeModuleWidth",
                                n |-> st.barcode_module_width])>>,
                     {i, i + 1, i + 2})
    ELSE Outcome(i + 2, state, <<>>, {i, i + 1})

\* GS f n
ArmGsBarcodeHriFont ==
    IF HasByte(2)
    THEN LET st == [state EXCEPT !.barcode_hri_font = At(i + 2)]
         IN  Outcome(i + 3, st,
                     <<Cmd(st, [kind |-> "BarcodeHriFont", n |-> st.barcode_hri_font])>>,
                     {i, i + 1, i + 2})
    ELSE Outcome(i + 2, state, <<>>, {i, i + 1})

\* GS v 0 m xL xH yL yH d...
U16BigEndian(lo, hi) == 256 * lo + hi
U16(lo, hi) == lo + 256 * hi

ArmGsRasterImage ==
    IF HasByte(7) /\ At(i + 2) = 48
    THEN LET m == At(i + 3)
             width_bytes == U16(At(i + 4), At(i + 5))
             height == U16(At(i + 6), At(i + 7))
             \* usize::saturating_mul / saturating_add of two u16 never saturate
             data_len == width_bytes * height
             start == i + 8
             end == start + data_len
         IN  IF end <= Len(data)
             THEN [Outcome(end, state,
                           <<Cmd(state, [kind |-> "RasterImage", m |-> m,
                                         width_bytes |-> width_bytes, height |-> height,
                                         data |-> Slice(start, end)])>>,
                           i .. (i + 7))
                     EXCEPT !.sls = {<<start, end>>}]
             ELSE Outcome(i + 2, state, <<>>, i .. (i + 7))
    ELSE Outcome(i + 2, state, <<>>,
                 IF HasByte(7) THEN {i, i + 1, i + 2} ELSE {i, i + 1})

\* a store that appends whatever the sub-mode byte is
QrStoreAnySubMode(qd, payload) ==
    IF Len(payload) >= 1 THEN qd \o Tail(payload) ELSE qd
\* GS ( k pL pH cn fn ...: the QR functions (cn = 0x31)
QrStore(qd, payload) ==
    IF Len(payload) >= 1 /\ payload[1] = 48 THEN qd \o Tail(payload) ELSE qd

\* a set that keeps the value it finds
QrSetKeepsOld(old, payload) == old
QrSet(old, payload) == IF Len(payload) >= 1 THEN payload[1] ELSE old

\* what Print leaves in qr_data
QrAfterPrintKeeps(qd) == qd
QrAfterPrint(qd) == <<>>

QrFunction(o, fn, payload) ==
    IF fn = 65 THEN [o EXCEPT !.qm = QrSet(qr_model, payload)]
    ELSE IF fn = 67 THEN [o EXCEPT !.qs = QrSet(qr_module_size, payload)]
    ELSE IF fn = 69 THEN [o EXCEPT !.qe = QrSet(qr_ecc, payload)]
    ELSE IF fn = 80 THEN [o EXCEPT !.qd = QrStore(qr_data, payload)]
    ELSE IF fn = 81
         THEN IF qr_data # <<>>
              THEN [o EXCEPT !.emit = <<Cmd(state, [kind |-> "Qr", model |-> qr_model,
                                                    module_size |-> qr_module_size,
                                                    ecc |-> qr_ecc, data |-> qr_data])>>,
                             !.qd = QrAfterPrint(qr_data)]
              ELSE o
    ELSE o

ArmGsParenK ==
    IF HasByte(5) /\ At(i + 2) = 107
    THEN LET total == U16(At(i + 3), At(i + 4))
             start == i + 5
             end == start + total
         IN  IF end <= Len(data) /\ total >= 2
             THEN LET cn == At(start)
                      fn == At(start + 1)
                      payload == Slice(start + 2, end)
                      hdr == (i .. (i + 4)) \cup {start, start + 1}
                  IN  IF cn = 49
                      THEN QrFunction(
                             [Outcome(end, state, <<>>,
                                      hdr \cup (IF fn \in {65, 67, 69, 80} /\ Len(payload) >= 1
                                                THEN {start + 2} ELSE {}))
                                 EXCEPT !.sls = {<<start + 2, end>>}],
                             fn, payload)
                      ELSE [Outcome(i + 2, state,
                                    <<Cmd(state, [kind |-> "GsUnknown", byte |-> 40])>>, hdr)
                               EXCEPT !.sls = {<<start + 2, end>>}]
             ELSE Outcome(i + 2, state, <<>>, i .. (i + 4))
    ELSE Outcome(i + 2, state, <<>>,
                 IF HasByte(5) THEN {i, i + 1, i + 2} ELSE {i, i + 1})

\* GS k m ...: `while j < data.len() && data[j] != 0x00 { j += 1 }`
RECURSIVE ScanToControl(_)
\* a scan that stops at any byte below 0x20, not only at NUL
ScanToControl(j) == IF j < Len(data) /\ At(j) >= SPACE THEN ScanToControl(j + 1) ELSE j
RECURSIVE ScanToNul(_)
ScanToNul(j) == IF j < Len(data) /\ At(j) # NUL THEN ScanToNul(j + 1) ELSE j

ArmGsBarcode ==
    IF HasByte(2)
    THEN LET m == At(i + 2)
         IN  IF m <= 6
             THEN LET j == ScanToNul(i + 3)
                      end == Min(j, Len(data))
                  IN  [Outcome(IF j < Len(data) THEN j + 1 ELSE j, state,
                               <<Cmd(state, [kind |-> "Barcode", m |-> m,
                                             data |-> Slice(i + 3, end)])>>,
                               {k \in i .. j : k < Len(data) \/ k <= i + 2})
                          EXCEPT !.sls = {<<i + 3, end>>}]
             ELSE IF HasByte(3)
                  THEN LET n == At(i + 3)
                           start == i + 4
                           end == start + n
                       IN  IF end <= Len(data)
                           THEN [Outcome(end, state,
                                         <<Cmd(state, [kind |-> "Barcode", m |-> m,
                                                       data |-> Slice(start, end)])>>,
                                         i .. (i + 3))
                                    EXCEPT !.sls = {<<start, end>>}]
                           ELSE Outcome(i + 2, state, <<>>, i .. (i + 3))
                  ELSE Outcome(i + 2, state, <<>>, i .. (i + 2))
    ELSE Outcome(i + 2, state, <<>>, {i, i + 1})

\* GS ! n: low nibble = width, high nibble = height
SizeWidthSwapped(n) == (n \div 16) % 16
SizeWidth(n) == n % 16
SizeHeight(n) == (n \div 16) % 16

SaturatingAdd8(a, b) == Min(a + b, 255)

ArmGsSize ==
    IF HasByte(2)
    THEN LET n == At(i + 2)
             width == SizeWidth(n)
             height == SizeHeight(n)
             st == [state EXCEPT !.char_width_mul = SaturatingAdd8(width, 1),
                                 !.char_height_mul = SaturatingAdd8(height, 1),
                                 !.font_scale = SaturatingAdd8(height, 1)]
         IN  Outcome(i + 3, st,
                     <<Cmd(st, [kind |-> "Size", raw |-> n, width |-> width,
                                height |-> height])>>,
                     {i, i + 1, i + 2})
    ELSE Outcome(i + 2, state, <<>>, {i, i + 1})

\* a cut that also restores the default state
ArmGsCutResets == Outcome(i + 3, DefaultState, <<Cmd(state, [kind |-> "Cut"])>>, {i, i + 1})
\* GS V that skips the argument byte only when there is one
ArmGsCutChecksArgument ==
    Outcome(IF HasByte(2) THEN i + 3 ELSE i + 2, state, <<Cmd(state, [kind |-> "Cut"])>>,
            {i, i + 1})
\* GS V: push Cut; i += 3
ArmGsCut == Outcome(i + 3, state, <<Cmd(state, [kind |-> "Cut"])>>, {i, i + 1})

\* GS <other>
ArmGsUnknown ==
    Outcome(i + 2, state, <<Cmd(state, [kind |-> "GsUnknown", byte |-> At(i + 1)])>>,
            {i, i + 1})

\* the text arm: `while j < data.len() { if b < 0x20 {break}; if b == ESC || b == GS {break}; .. }`
RECURSIVE ScanTextAscii(_)
\* a scan that also stops at a byte beyond ASCII
ScanTextAscii(j) ==
    IF j < Len(data) /\ ~(At(j) < SPACE) /\ At(j) < 128
    THEN ScanTextAscii(j + 1) ELSE j
RECURSIVE ScanText(_)
ScanText(j) ==
    IF j < Len(data) /\ ~(At(j) < SPACE) /\ ~(At(j) = ESC \/ At(j) = GS)
    THEN ScanText(j + 1) ELSE j

\* a text arm that, under the UTF-8 selector, gives up on a byte beyond ASCII
ArmTextPerSelector ==
    LET j == ScanText(i)
        text_bytes == Slice(i, j)
    IN  IF text_bytes # <<>> /\ ~(codepage = "Utf8Lossy" /\ At(i) >= 128)
        THEN Outcome(j, state,
                     <<Cmd(state, [kind |-> "Text", text |-> decode_text(text_bytes, codepage)])>>,
                     {k \in i .. j : k < Len(data)})
        ELSE Outcome(i + 1, state, <<Cmd(state, [kind |-> "Unknown", byte |-> At(i)])>>, {i})
ArmText ==
    LET j == ScanText(i)
        text_bytes == Slice(i, j)
    IN  IF text_bytes # <<>>
        THEN Outcome(j, state,
                     <<Cmd(state, [kind |-> "Text", text |-> decode_text(text_bytes, codepage)])>>,
                     {k \in i .. j : k < Len(data)})
        ELSE Outcome(i + 1, state, <<Cmd(state, [kind |-> "Unknown", byte |-> At(i)])>>, {i})

(***************************************************************************)
(* One iteration of `while i < data.len() { match data[i] { ... } }`.      *)
(***************************************************************************)
Running == ~panicked /\ i < Len(data)

OutOfBounds(o) ==
    \/ \E k \in o.reads : k < 0 \/ k >= Len(data)
    \/ \E s \in o.sls : s[1] > s[2] \/ s[2] > Len(data)

\* a push that stores a reference to the live state instead of a clone of
\* it: every snapshot pushed before follows the state
PushAliased(cmds, emit) ==
    IF emit = <<>> THEN cmds
    ELSE [k \in 1..Len(cmds) |-> <<emit[1][1], cmds[k][2]>>] \o emit

\* commands.push((state.clone(), ..))
Push(cmds, emit) == cmds \o emit

Apply(o, arm) ==
    /\ Running
    /\ i' = o.ni
    /\ state' = o.st
    /\ commands' = Push(commands, o.emit)
    /\ qr_model' = o.qm
    /\ qr_module_size' = o.qs
    /\ qr_ecc' = o.qe
    /\ qr_data' = o.qd
    /\ panicked' = OutOfBounds(o)
    /\ iters' = iters + 1
    /\ rd' = o.reads
    /\ sl' = o.sls
    /\ op' = arm
    /\ UNCHANGED <<data, codepage, parsed_commands, parsed_with, script>>
    /\ UNCHANGED nonParseVars

StepLF == At(i) = LF /\ Apply(ArmLF, "LF")
StepCR == At(i) = CR /\ Apply(ArmCR, "CR")

StepEscAlone == At(i) = ESC /\ ~HasByte(1) /\ Apply(ArmPrefixAlone, "EscAlone")
StepEscInit == At(i) = ESC /\ HasByte(1) /\ At(i + 1) = 64 /\ Apply(ArmEscInit, "EscInit")
StepEscBold == At(i) = ESC /\ HasByte(1) /\ At(i + 1) = 69 /\ Apply(ArmEscBold, "EscBold")
StepEscAlign == At(i) = ESC /\ HasByte(1) /\ At(i + 1) = 97 /\ Apply(ArmEscAlign, "EscAlign")
StepEscUnknown ==
    At(i) = ESC /\ HasByte(1) /\ At(i + 1) \notin {64, 69, 97}
    /\ Apply(ArmEscUnknown, "EscUnknown")

GsOpcodes == {72, 104, 119, 102, 118, 40, 107, 33, 86}

StepGsAlone == At(i) = GS /\ ~HasByte(1) /\ Apply(ArmPrefixAlone, "GsAlone")
StepGsHriPosition ==
    At(i) = GS /\ HasByte(1) /\ At(i + 1) = 72 /\ Apply(ArmGsHriPosition, "GsHriPosition")
StepGsBarcodeHeight ==
    At(i) = GS /\ HasByte(1) /\ At(i + 1) = 104 /\ Apply(ArmGsBarcodeHeight, "GsBarcodeHeight")
StepGsBarcodeModuleWidth ==
    At(i) = GS /\ HasByte(1) /\ At(i + 1) = 119
    /\ Apply(ArmGsBarcodeModuleWidth, "GsBarcodeModuleWidth")
StepGsBarcodeHriFont ==
    At(i) = GS /\ HasByte(1) /\ At(i + 1) = 102 /\ Apply(ArmGsBarcodeHriFont, "GsBarcodeHriFont")
StepGsRasterImage ==
    At(i) = GS /\ HasByte(1) /\ At(i + 1) = 118 /\ Apply(ArmGsRasterImage, "GsRasterImage")
StepGsParenK == At(i) = GS /\ HasByte(1) /\ At(i + 1) = 40 /\ Apply(ArmGsParenK, "GsParenK")
StepGsBarcode == At(i) = GS /\ HasByte(1) /\ At(i + 1) = 107 /\ Apply(ArmGsBarcode, "GsBarcode")
StepGsSize == At(i) = GS /\ HasByte(1) /\ At(i + 1) = 33 /\ Apply(ArmGsSize, "GsSize")
StepGsCut == At(i) = GS /\ HasByte(1) /\ At(i + 1) = 86 /\ Apply(ArmGsCut, "GsCut")
StepGsUnknown ==
    At(i) = GS /\ HasByte(1) /\ At(i + 1) \notin GsOpcodes /\ Apply(ArmGsUnknown, "GsUnknown")

StepText == At(i) \notin {LF, CR, ESC, GS} /\ Apply(ArmText, "Text")

(***************************************************************************)
(* Input buffers.  The wide library holds every opcode the decoder knows,  *)
(* whole and truncated, and is combined in short sequences; the deep       *)
(* library holds the few opcodes whose effect is only seen several opcodes *)
(* later (state changes, Reset, the QR store / print pair) and is combined *)
(* in longer sequences.  TestVectors are the buffers of the unit tests of  *)
(* escpos.rs.                                                              *)
(***************************************************************************)
QrSetModel(n) == <<29, 40, 107, 4, 0, 49, 65, n, 0>>
QrSetSize(n) == <<29, 40, 107, 3, 0, 49, 67, n>>
QrSetEcc(n) == <<29, 40, 107, 3, 0, 49, 69, n>>
QrStoreHI == <<29, 40, 107, 5, 0, 49, 80, 48, 72, 73>>
QrPrint == <<29, 40, 107, 3, 0, 49, 81, 48>>

WideFrags ==
    { <<10>>, <<13>>, <<9>>, <<65>>, <<27>>, <<29>>,
      <<27, 64>>, <<27, 69, 1>>, <<27, 69>>, <<27, 97, 50>>, <<27, 33>>,
      <<29, 72, 2>>, <<29, 72, 50>>, <<29, 72>>, <<29, 104, 0>>, <<29, 119, 2>>, <<29, 102, 1>>,
      <<29, 33, 16>>, <<29, 33, 255>>,
      <<29, 86, 0>>, <<29, 86>>, <<29, 66>>,
      <<29, 118, 48, 0, 1, 0, 1, 0, 128>>, <<29, 118, 48, 0, 2, 0, 1, 0, 128>>,
      <<29, 118, 48, 0, 1, 0>>,
      QrSetSize(6), QrStoreHI, QrPrint,
      <<29, 40, 107, 3, 0, 49, 80, 49, 72>>, <<29, 40, 107, 3, 0, 48, 81, 48>>,
      <<29, 40, 107, 9, 0, 49, 80, 48>>,
      <<29, 107, 4, 72, 73, 0>>, <<29, 107, 4, 72>>, <<29, 107, 73, 2, 72, 73>>,
      <<29, 107, 73, 5, 72>> }

DeepFrags ==
    { <<65>>, <<27, 64>>, <<27, 69, 1>>, <<29, 33, 16>>,
      QrSetModel(49), QrStoreHI, QrPrint }

QrTestSequence(m, s, e) ==
    QrSetModel(m) \o QrSetSize(s) \o QrSetEcc(e) \o QrStoreHI \o QrPrint

TestVectors ==
    { <<72, 111, 108, 97, 10>>,
      <<27, 69, 1, 65, 27, 64, 66>>,
      <<251, 172, 61, 171>>,
      <<130>>,
      <<161, 71, 114, 97, 99, 105, 97, 115>>,
      <<29, 118, 48, 0, 1, 0, 1, 0, 128>>,
      QrTestSequence(50, 4, 48),
      <<29, 33, 16, 65>>,
      <<29, 72, 50, 65>> }

QrScenarios ==
    { QrTestSequence(m, s, e) \o tail :
        m \in {1, 2, 50}, s \in {4, 6}, e \in {48, 51}, tail \in {<<>>, QrPrint, <<65>>} }

\* GS v 0 m xL xH yL yH and n payload bytes (0x07 each), then what follows
Raster(xL, xH, yL, yH, n, tail) == <<GS, 118, 48, 0, xL, xH, yL, yH>> \o [k \in 1..n |-> 7] \o tail

\* raster images of 2 x 2, 0 x 1, 256 x 1, 1 x 256 and 3 x 1 bytes with the
\* whole payload, followed by nothing, a letter or another opcode, and the
\* same one payload byte short
RasterVectors ==
    { Raster(d[1], d[2], d[3], d[4], U16(d[1], d[2]) * U16(d[3], d[4]) - short, tail) :
        d \in {<<2, 0, 2, 0>>, <<0, 0, 1, 0>>, <<0, 1, 1, 0>>, <<1, 0, 0, 1>>, <<3, 0, 1, 0>>},
        short \in {0, 1},
        tail \in {<<>>, <<66>>, <<LF>>, <<ESC, 64, 66>>} }

\* GS k m under the modes around the framing threshold 6, with payloads that
\* hold a NUL, a line feed, a length byte larger than what follows, or nothing
BarcodeVectors ==
    { <<GS, 107, m>> \o body :
        m \in {0, 6, 7, 255},
        body \in {<<>>, <<0>>, <<2, 72, 73>>, <<2, 72, 0, 73>>, <<1, LF, 0, 65>>, <<3, 72, 73>>} }

Inputs ==
    {Concat(fs) : fs \in SeqsUpTo(WideFrags, MaxWide)}
    \cup {Concat(fs) : fs \in SeqsUpTo(DeepFrags, MaxDeep)}
    \cup TestVectors \cup QrScenarios \cup RasterVectors \cup BarcodeVectors

Conns == 1..MaxConns

NewConn ==
    [st |-> "idle", peer |-> "open", sock |-> <<>>, sent |-> <<>>,
     cause |-> "none", got |-> <<>>]

CaptureStart ==
    /\ capture = "none"
    /\ stop = FALSE
    /\ join = "None"
    /\ apc = "idle"
    /\ lpc = "none"
    /\ cur = 0
    /\ buf = <<>>
    /\ chan = <<>>
    /\ delivered = <<>>
    /\ backlog = <<>>
    /\ conns = [c \in Conns |-> NewConn]

\* Option<usize>
NoneIdx == [some |-> FALSE, val |-> 0]
SomeIdx(k) == [some |-> TRUE, val |-> k]

\* max_jobs: 25
DefaultMaxJobs == 25

\* EscPosViewer::default (app.rs:84-107)
AppStart ==
    /\ tcp_enabled = TRUE
    /\ tcp_last_error = "None"
    /\ binds = 0
    /\ last = "init"
    /\ port_taken = FALSE
    /\ jobs = <<>>
    /\ active_job_idx = NoneIdx
    /\ next_job_id = 1
    /\ max_jobs = DefaultMaxJobs
    /\ auto_prune_by_age = FALSE
    /\ job_op = "init"

\* no barcode is being rendered
EncIdle ==
    /\ enc_data = <<>>
    /\ enc_m = -1
    /\ enc_out = [some |-> FALSE, runs |-> <<>>, hri |-> <<>>]

ParseInitFrom(S) ==
    /\ CaptureStart
    /\ AppStart
    /\ EncIdle
    /\ data \in S
    /\ codepage = "Utf8Lossy"
    /\ i = 0
    /\ state = DefaultState
    /\ qr_model = 2
    /\ qr_module_size = 4
    /\ qr_ecc = 48
    /\ qr_data = <<>>
    /\ commands = <<>>
    /\ panicked = FALSE
    /\ iters = 0
    /\ rd = {}
    /\ sl = {}
    /\ op = "start"
    /\ parsed_commands = <<>>
    /\ parsed_with = "none"
    /\ script = <<>>

ParseNext ==
    \/ StepLF
    \/ StepCR
    \/ StepEscAlone
    \/ StepEscInit
    \/ StepEscBold
    \/ StepEscAlign
    \/ StepEscUnknown
    \/ StepGsAlone
    \/ StepGsHriPosition
    \/ StepGsBarcodeHeight
    \/ StepGsBarcodeModuleWidth
    \/ StepGsBarcodeHriFont
    \/ StepGsRasterImage
    \/ StepGsParenK
    \/ StepGsBarcode
    \/ StepGsSize
    \/ StepGsCut
    \/ StepGsUnknown
    \/ StepText

Init == ParseInitFrom(Inputs)
Next == ParseNext
Spec == Init /\ [][Next]_vars

(***************************************************************************)
(* The three-byte opcodes under every value of their argument byte,        *)
(* followed by a printable byte or a line feed.                            *)
(***************************************************************************)
ArgOpcodes == {<<GS, 33>>, <<GS, 72>>, <<GS, 104>>, <<GS, 119>>}

ArgInputs ==
    {pre \o <<n>> \o tail : pre \in ArgOpcodes, n \in 0..255, tail \in {<<65>>, <<LF>>}}

ArgInit == ParseInitFrom(ArgInputs)
ArgNext ==
    \/ StepGsSize
    \/ StepGsHriPosition
    \/ StepGsBarcodeHeight
    \/ StepGsBarcodeModuleWidth
    \/ StepText
    \/ StepLF
ArgSpec == ArgInit /\ [][ArgNext]_vars

(***************************************************************************)
(* Properties of parse_escpos.                                             *)
(***************************************************************************)
Kind(pc) == pc[2].kind
Snapshot(pc) == pc[1]
CommandsOfKind(k) == SelectSeq(commands, LAMBDA pc : Kind(pc) = k)

\* the cursor at the start of the last iteration: the lowest index it read
LastStart == CHOOSE k \in rd : \A j \in rd : k <= j

\* C1: every iteration of the scan loop advances the cursor by at least one
\* byte, so the loop runs at most len(data) iterations, and every iteration
\* pushes at most one command: the command list is finite.
C1_ScanTerminates ==
    /\ [][i' >= i + 1 /\ iters' = iters + 1 /\ Len(commands') <= Len(commands) + 1]_vars
    /\ [](iters <= Len(data) /\ Len(commands) <= iters)

\* the scan ended on a buffer whose last byte is an ESC prefix with no opcode
C1_Witness == ~Running /\ Len(data) >= 2 /\ op = "EscAlone" /\ iters >= 2

\* C2: every index the decoder reads and every range it slices lies inside
\* the buffer, so no iteration panics.
C2_ReadsInBounds ==
    /\ ~panicked
    /\ \A k \in rd : 0 <= k /\ k < Len(data)
    /\ \A s \in sl : s[1] <= s[2] /\ s[2] <= Len(data)

\* a raster header was read in full, its declared size exceeded what remains,
\* and nothing was sliced
C2_Witness ==
    /\ op = "GsRasterImage" /\ rd = LastStart .. (LastStart + 7) /\ sl = {}
    /\ U16(At(LastStart + 4), At(LastStart + 5)) * U16(At(LastStart + 6), At(LastStart + 7))
         > Len(data) - (LastStart + 8)

StateChangingKinds ==
    {"Init", "Bold", "Align", "Size", "BarcodeHriPosition", "BarcodeHeight",
     "BarcodeModuleWidth", "BarcodeHriFont"}

\* the bytes at the cursor are a QR print function (GS ( k pL pH 0x31 0x51 ..)
QrPrintAtCursor ==
    /\ Running /\ At(i) = GS /\ HasByte(5) /\ At(i + 1) = 40 /\ At(i + 2) = 107
    /\ U16(At(i + 3), At(i + 4)) >= 2 /\ i + 5 + U16(At(i + 3), At(i + 4)) <= Len(data)
    /\ At(i + 5) = 49 /\ At(i + 6) = 81

\* C3: right after ESC @ the live state is the default state and the QR
\* assembly state is cleared; every command between the Init command and the
\* next state-changing command carries the default snapshot; a QR print that
\* directly follows the reset pushes nothing.
C3_ResetRestoresDefaults ==
    /\ [](op = "EscInit" =>
            /\ state = DefaultState
            /\ qr_data = <<>> /\ qr_model = 2 /\ qr_module_size = 4 /\ qr_ecc = 48)
    /\ [](\A k \in 1..Len(commands) : \A m \in (k + 1)..Len(commands) :
            (Kind(commands[k]) = "Init"
               /\ \A j \in (k + 1)..m : Kind(commands[j]) \notin StateChangingKinds)
            => Snapshot(commands[m]) = DefaultState)
    /\ [][(op = "EscInit" /\ QrPrintAtCursor) => commands' = commands]_vars

\* bold was set and "HI" stored, then ESC @, then a QR print: only the Bold
\* and Init commands were pushed, the Init one carrying the bold snapshot
C3_Witness ==
    /\ data = <<27, 69, 1>> \o QrStoreHI \o <<27, 64>> \o QrPrint
    /\ ~Running
    /\ Len(commands) = 2 /\ Kind(commands[2]) = "Init" /\ Snapshot(commands[2]).is_bold
    /\ state = DefaultState

\* C4: after GS ! n the width multiplier is (n AND 0x0F) + 1 and the height
\* multiplier is (n >> 4) + 1 (n = 0x10: height 2, width 1), and the text
\* decoded next carries those multipliers.
C4_SizeNibbles ==
    /\ (op = "GsSize" /\ Cardinality(rd) = 3) =>
          LET n == At(LastStart + 2)
          IN  /\ state.char_width_mul = (n % 16) + 1
              /\ state.char_height_mul = (n \div 16) + 1
              /\ n = 16 => (state.char_height_mul = 2 /\ state.char_width_mul = 1)
    /\ \A k \in 1..(Len(commands) - 1) :
          (Kind(commands[k]) = "Size" /\ Kind(commands[k + 1]) = "Text") =>
             LET n == commands[k][2].raw
                 st == Snapshot(commands[k + 1])
             IN  st.char_width_mul = (n % 16) + 1 /\ st.char_height_mul = (n \div 16) + 1

\* GS ! 0x10 'A' has been decoded: the text carries height 2, width 1
C4_Witness ==
    /\ data = <<29, 33, 16, 65>> /\ ~Running
    /\ Len(commands) = 2 /\ Kind(commands[2]) = "Text"
    /\ Snapshot(commands[2]).char_height_mul = 2
    /\ Snapshot(commands[2]).char_width_mul = 1

\* C5: GS H n with its argument present consumes exactly three bytes whatever
\* n is; n is in no Text command and the byte after it is decoded on its own.
C5_HriArgumentConsumed ==
    /\ (op = "GsHriPosition" /\ LastStart + 2 < Len(data)) => i = LastStart + 3
    /\ \A n \in 0..255 : \A tail \in {<<65>>, <<LF>>} :
          (data = <<GS, 72, n>> \o tail /\ ~Running) =>
             /\ Len(commands) = 2
             /\ Kind(commands[1]) = "BarcodeHriPosition"
             /\ commands[2][2] = (IF tail = <<65>>
                                  THEN [kind |-> "Text", text |-> <<65>>]
                                  ELSE [kind |-> "Newline"])

\* GS H '2' 'A' has been decoded: the only text is "A"
C5_Witness ==
    /\ data = <<29, 72, 50, 65>> /\ ~Running
    /\ CommandsOfKind("Text") = <<Cmd(DefaultState, [kind |-> "Text", text |-> <<65>>])>>

TmpSize == 8192

ParseIdle ==
    /\ data = <<>>
    /\ codepage = "Utf8Lossy"
    /\ i = 0
    /\ state = DefaultState
    /\ qr_model = 2
    /\ qr_module_size = 4
    /\ qr_ecc = 48
    /\ qr_data = <<>>
    /\ commands = <<>>
    /\ panicked = FALSE
    /\ iters = 0
    /\ rd = {}
    /\ sl = {}
    /\ op = "start"
    /\ parsed_commands = <<>>
    /\ parsed_with = "none"
    /\ script = <<>>

\* the k-th byte peer c sends: distinct per connection and per position
PeerByte(c, k) == 16 * c + k

\* TcpCapture::start past the bind: a fresh stop flag, the listener thread
\* is spawned and its handle kept
SpawnListener ==
    /\ capture' = "running"
    /\ stop' = FALSE
    /\ join' = "Some"
    /\ lpc' = "top"

\* TcpCapture::start: `TcpListener::bind(bind_addr)?` returns the error
BindError ==
    /\ capture' = "bind_failed"
    /\ UNCHANGED <<stop, join, lpc>>

\* TcpCapture::start: bind succeeds, the listener thread is spawned
StartOk ==
    /\ capture = "none"
    /\ SpawnListener
    /\ UNCHANGED <<apc, cur, buf, chan, delivered, backlog, conns>>
    /\ UNCHANGED nonCaptureVars

\* TcpCapture::start: `TcpListener::bind(bind_addr)?` fails
StartBindFails ==
    /\ capture = "none"
    /\ BindError
    /\ UNCHANGED <<apc, cur, buf, chan, delivered, backlog, conns>>
    /\ UNCHANGED nonCaptureVars

\* ---- the peers ----
PeerConnect(c) ==
    /\ lpc \in {"top", "accept", "read"}
    /\ conns[c].st = "idle"
    /\ conns' = [conns EXCEPT ![c].st = "queued"]
    /\ backlog' = Append(backlog, c)
    /\ UNCHANGED <<capture, stop, join, apc, lpc, cur, buf, chan, delivered>>
    /\ UNCHANGED nonCaptureVars

PeerSend(c) ==
    /\ conns[c].st \in {"queued", "accepted"}
    /\ conns[c].peer = "open"
    /\ Len(conns[c].sent) < MaxSend
    /\ LET b == PeerByte(c, Len(conns[c].sent) + 1)
       IN  conns' = [conns EXCEPT ![c].sock = Append(@, b), ![c].sent = Append(@, b)]
    /\ UNCHANGED <<capture, stop, join, apc, lpc, cur, buf, chan, delivered, backlog>>
    /\ UNCHANGED nonCaptureVars

PeerClose(c) ==
    /\ conns[c].st \in {"queued", "accepted"}
    /\ conns[c].peer = "open"
    /\ conns' = [conns EXCEPT ![c].peer = "closed"]
    /\ UNCHANGED <<capture, stop, join, apc, lpc, cur, buf, chan, delivered, backlog>>
    /\ UNCHANGED nonCaptureVars

\* the connection fails (reset by the peer): unread bytes are discarded
PeerReset(c) ==
    /\ conns[c].st \in {"queued", "accepted"}
    /\ conns[c].peer = "open"
    /\ conns' = [conns EXCEPT ![c].peer = "reset", ![c].sock = <<>>]
    /\ UNCHANGED <<capture, stop, join, apc, lpc, cur, buf, chan, delivered, backlog>>
    /\ UNCHANGED nonCaptureVars

\* ---- the listener thread: `loop { if stop {break}; match listener.accept() {..} }` ----
ListenerCheckStop ==
    /\ lpc = "top"
    /\ lpc' = IF stop THEN "exited" ELSE "accept"
    /\ UNCHANGED <<capture, stop, join, apc, cur, buf, chan, delivered, backlog, conns>>
    /\ UNCHANGED nonCaptureVars

\* Ok((stream, peer)) => read_one_job(stream, ...) is called on this thread
AcceptOk ==
    /\ lpc = "accept"
    /\ backlog # <<>>
    /\ cur' = Head(backlog)
    /\ backlog' = Tail(backlog)
    /\ conns' = [conns EXCEPT ![Head(backlog)].st = "accepted"]
    /\ buf' = <<>>
    /\ lpc' = "read"
    /\ UNCHANGED <<capture, stop, join, apc, chan, delivered>>
    /\ UNCHANGED nonCaptureVars

\* Err(WouldBlock) => sleep 25 ms
AcceptWouldBlock ==
    /\ lpc = "accept"
    /\ backlog = <<>>
    /\ lpc' = "top"
    /\ UNCHANGED <<capture, stop, join, apc, cur, buf, chan, delivered, backlog, conns>>
    /\ UNCHANGED nonCaptureVars

\* Err(_) => break
AcceptError ==
    /\ lpc = "accept"
    /\ lpc' = "exited"
    /\ UNCHANGED <<capture, stop, join, apc, cur, buf, chan, delivered, backlog, conns>>
    /\ UNCHANGED nonCaptureVars

\* ---- read_one_job ----
\* `buf.extend_from_slice(&tmp[..n])`
ExtendBufOverwrites(b, chunk) == chunk
ExtendBuf(b, chunk) == b \o chunk

\* `if !buf.is_empty() { let _ = tx.send(CapturedJob { source, bytes: buf }); .. }`
FlushJobAlways(ch, source, b) == Append(ch, [source |-> source, bytes |-> b])
FlushJobTwice(ch, source, b) ==
    IF b # <<>>
    THEN ch \o <<[source |-> source, bytes |-> b], [source |-> source, bytes |-> b]>>
    ELSE ch
FlushJob(ch, source, b) ==
    IF b # <<>>
    THEN Append(ch, [source |-> source, bytes |-> b])
    ELSE ch

\* what is sent when the read fails: `Err(e) => return Err(e)` sends nothing
FlushOnError(ch, source, b) == ch

\* where the listener thread goes when read_one_job returns: the error is
\* dropped (`let _ = err`) and the loop continues
AfterJob(failed) == "top"

Finish(c, cause, ch, failed) ==
    /\ chan' = ch
    /\ conns' = [conns EXCEPT ![c].st = "dropped", ![c].cause = cause, ![c].sock = <<>>,
                              ![c].got = buf]
    /\ cur' = 0
    /\ buf' = <<>>
    /\ lpc' = AfterJob(failed)
    /\ UNCHANGED <<capture, stop, join, apc, delivered, backlog>>
    /\ UNCHANGED nonCaptureVars

\* Ok(n) => buf.extend_from_slice(&tmp[..n])
ReadData ==
    /\ lpc = "read"
    /\ conns[cur].peer # "reset"
    /\ conns[cur].sock # <<>>
    /\ \E n \in 1..Min(Len(conns[cur].sock), TmpSize) :
          /\ buf' = ExtendBuf(buf, SubSeq(conns[cur].sock, 1, n))
          /\ conns' = [conns EXCEPT ![cur].sock = SubSeq(@, n + 1, Len(@))]
    /\ UNCHANGED <<capture, stop, join, apc, lpc, cur, chan, delivered, backlog>>
    /\ UNCHANGED nonCaptureVars

\* Ok(0) => break
ReadEof ==
    /\ lpc = "read"
    /\ conns[cur].peer = "closed"
    /\ conns[cur].sock = <<>>
    /\ Finish(cur, "eof", FlushJob(chan, cur, buf), FALSE)

\* Err(WouldBlock) => continue
ReadWouldBlock ==
    /\ lpc = "read"
    /\ conns[cur].peer = "open"
    /\ conns[cur].sock = <<>>
    /\ UNCHANGED captureVars
    /\ UNCHANGED nonCaptureVars

\* Err(TimedOut) => break
ReadTimedOut ==
    /\ lpc = "read"
    /\ conns[cur].peer = "open"
    /\ conns[cur].sock = <<>>
    /\ Finish(cur, "timeout", FlushJob(chan, cur, buf), FALSE)

\* Err(e) => return Err(e)
ReadError ==
    /\ lpc = "read"
    /\ conns[cur].peer = "reset"
    /\ Finish(cur, "error", FlushOnError(chan, cur, buf), TRUE)

\* ---- the application ----
\* TcpCapture::try_recv_all
\* `self.rx.try_iter().collect()`: every queued job, oldest first
Reverse(q) == [k \in 1..Len(q) |-> q[Len(q) + 1 - k]]
TryIterNewestFirst(ch) == Reverse(ch)
TryIter(ch) == ch

TryRecvAll ==
    /\ capture = "running"
    /\ chan # <<>>
    /\ delivered' = delivered \o TryIter(chan)
    /\ chan' = <<>>
    /\ UNCHANGED <<capture, stop, join, apc, lpc, cur, buf, backlog, conns>>
    /\ UNCHANGED nonCaptureVars

\* `self.join.take()`: the handle is moved out, None is left behind
TakeJoinKeeps(j) == j
TakeJoin(j) == "None"

\* the body of TcpCapture::stop: store the flag, take the handle and, when
\* there was one, start joining
StopBody ==
    /\ stop' = TRUE
    /\ apc' = IF join = "Some" THEN "joining" ELSE "idle"
    /\ join' = TakeJoin(join)

\* TcpCapture::stop, called on a running capture
StopCall ==
    /\ capture = "running"
    /\ apc = "idle"
    /\ StopBody
    /\ UNCHANGED <<capture, lpc, cur, buf, chan, delivered, backlog, conns>>
    /\ UNCHANGED nonCaptureVars

\* Drop for TcpCapture after an explicit stop(): `self.stop()` runs again,
\* then the value (and its receiver) is gone
DropCapture ==
    /\ capture = "stopped"
    /\ apc = "idle"
    /\ StopBody
    /\ capture' = IF apc' = "idle" THEN "dropped" ELSE capture
    /\ UNCHANGED <<lpc, cur, buf, chan, delivered, backlog, conns>>
    /\ UNCHANGED nonCaptureVars

\* join.join() returns once the listener thread has exited; the handle
\* (and with it the receiver) is then dropped by set_tcp_capture
StopReturns ==
    /\ apc = "joining"
    /\ lpc = "exited"
    /\ apc' = "idle"
    /\ capture' = IF capture = "running" THEN "stopped" ELSE "dropped"
    /\ UNCHANGED <<stop, join, lpc, cur, buf, chan, delivered, backlog, conns>>
    /\ UNCHANGED nonCaptureVars

CaptureInit == ParseIdle /\ CaptureStart /\ AppStart /\ EncIdle

CaptureNext ==
    \/ StartOk
    \/ StartBindFails
    \/ \E c \in Conns : PeerConnect(c)
    \/ \E c \in Conns : PeerSend(c)
    \/ \E c \in Conns : PeerClose(c)
    \/ \E c \in Conns : PeerReset(c)
    \/ ListenerCheckStop
    \/ AcceptOk
    \/ AcceptWouldBlock
    \/ AcceptError
    \/ ReadData
    \/ ReadEof
    \/ ReadWouldBlock
    \/ ReadTimedOut
    \/ ReadError
    \/ TryRecvAll
    \/ StopCall
    \/ StopReturns
    \/ DropCapture

CaptureSpec == CaptureInit /\ [][CaptureNext]_vars

(***************************************************************************)
(* Properties of TcpCapture.                                               *)
(***************************************************************************)
AllJobs == delivered \o chan
JobsOf(c) == SelectSeq(AllJobs, LAMBDA j : j.source = c)
Job(c, bytes) == [source |-> c, bytes |-> bytes]

\* C7: a connection that delivered bytes and then reached end of file has
\* exactly one job, whose bytes are the bytes read from it, which are the
\* bytes the peer sent, in order.
C7_EofYieldsOneJob ==
    \A c \in Conns :
      (conns[c].cause = "eof" /\ conns[c].got # <<>>) =>
         /\ JobsOf(c) = <<Job(c, conns[c].got)>>
         /\ conns[c].got = conns[c].sent

\* a peer sent two bytes and closed, and its job has been handed over
C7_Witness ==
    \E c \in Conns :
      /\ conns[c].cause = "eof" /\ Len(conns[c].sent) >= 2
      /\ \E k \in 1..Len(delivered) : delivered[k] = Job(c, conns[c].sent)

C9_AcceptNotBlockedByRead ==
    (lpc = "read" /\ conns[cur].peer = "open" /\ backlog # <<>>) => ENABLED AcceptOk

\* C10: a connection whose read failed after bytes were read has one job
\* holding those bytes, and the failure leaves the listener thread running.
C10_ReadErrorStillFlushes ==
    /\ [](\A c \in Conns :
            (conns[c].cause = "error" /\ conns[c].got # <<>>) =>
               JobsOf(c) = <<Job(c, conns[c].got)>>)
    /\ [][(lpc = "read" /\ conns[cur].peer = "reset") => lpc' \in {"read", "top"}]_vars

\* stop() has returned: the explicit call (stopped) or the one Drop makes
Stopped == capture \in {"stopped", "dropped"}

\* C11: once stop() has returned no job is sent on the channel any more (the
\* jobs sent so far, received or not, stay as they are and the listener
\* thread has exited), and the second stop() that Drop makes neither joins
\* nor changes anything but the dropped handle.
C11_NoJobAfterStop ==
    /\ [](Stopped => lpc = "exited" /\ join = "None")
    /\ [][Stopped => (AllJobs' = AllJobs /\ chan' = chan /\ apc' = "idle"
                      /\ UNCHANGED <<lpc, cur, buf, backlog>>)]_vars

\* stop() returned while a sent job was still unreceived, with no connection
\* in flight, and Drop then stopped again
C11_Witness ==
    /\ capture = "dropped" /\ apc = "idle" /\ chan # <<>> /\ cur = 0
    /\ \E c \in Conns : conns[c].st = "queued"

(***************************************************************************)
(* The capture under fair scheduling.  The listener thread keeps running:  *)
(* each step of its loop that stays possible is eventually taken, and so   *)
(* is the return of join() once the thread has exited.  Nothing obliges a  *)
(* peer to act, accept() to fail, or the platform to report an expired     *)
(* read timeout as TimedOut rather than WouldBlock (std::net documents     *)
(* both), so these carry no fairness.                                      *)
(***************************************************************************)
CaptureFairSpec ==
    /\ CaptureSpec
    /\ WF_vars(ListenerCheckStop)
    /\ WF_vars(AcceptOk)
    /\ WF_vars(AcceptWouldBlock)
    /\ WF_vars(ReadData)
    /\ WF_vars(ReadEof)
    /\ WF_vars(ReadError)
    /\ WF_vars(StopReturns)

\* the listener is inside read_one_job on a connection whose peer is
\* connected and silent
SilentRead == lpc = "read" /\ conns[cur].peer = "open" /\ conns[cur].sock = <<>>

\* C12: a stop() that has been called (it is joining the listener thread)
\* eventually returns.
C12_StopReturns == (apc = "joining") ~> (apc = "idle")

\* stop() returns unless the listener sits in a read of a silent peer
StopReturnsUnlessSilent == (apc = "joining") ~> (apc = "idle" \/ SilentRead)

\* C13: no job sent on the channel has zero bytes, and a connection whose
\* read ended at end of file or by timeout before any byte was read has no
\* job at all.
C13_NoEmptyJob ==
    /\ \A k \in 1..Len(AllJobs) : AllJobs[k].bytes # <<>>
    /\ \A c \in Conns :
          (conns[c].cause \in {"eof", "timeout"} /\ conns[c].got = <<>>) => JobsOf(c) = <<>>

\* one connection was closed and another timed out, both before any byte
\* was read
C13_Witness ==
    \E c, d \in Conns :
      /\ conns[c].cause = "eof" /\ conns[c].got = <<>>
      /\ conns[d].cause = "timeout" /\ conns[d].got = <<>>

IsPrefix(a, b) == Len(a) <= Len(b) /\ SubSeq(b, 1, Len(a)) = a

\* C14: every job holds bytes of its own connection only, a contiguous run
\* of what that peer sent in the order it was received; no connection has
\* two jobs; and the jobs sent so far (received or not) only ever grow at
\* the end, by the job of the read that just completed, so that try_recv_all
\* hands jobs over in the order their reads completed, each once.
C14_JobsOwnBytesInOrder ==
    /\ [](\A k \in 1..Len(AllJobs) :
            LET j == AllJobs[k]
            IN  /\ j.bytes = conns[j.source].got
                /\ IsPrefix(j.bytes, conns[j.source].sent)
                /\ \A n \in 1..Len(j.bytes) : j.bytes[n] = PeerByte(j.source, n)
                /\ Len(JobsOf(j.source)) = 1)
    /\ [][\/ AllJobs' = AllJobs
          \/ /\ lpc = "read"
             /\ conns'[cur].st = "dropped"
             /\ AllJobs' = Append(AllJobs, Job(cur, buf))
             /\ delivered' = delivered]_vars

\* two connections that were sending at the same time each had their two
\* bytes handed over as one job
C14_Witness ==
    /\ Len(delivered) = 2
    /\ delivered[1].source # delivered[2].source
    /\ Len(delivered[1].bytes) = 2 /\ Len(delivered[2].bytes) = 2

(***************************************************************************)
(* app.rs: the capture kept in step with its checkbox.  tcp_capture is     *)
(* Some exactly while a started TcpCapture is held (capture = "running").  *)
(* The handlers run on the UI thread, which is blocked while stop() joins. *)
(* No peer connects in this specification.                                 *)
(***************************************************************************)
TcpCaptureIsSome == capture = "running"
AppIdle == apc = "idle" /\ capture # "stopped"

\* set_tcp_capture(true, ..)
SetTcpCaptureOn ==
    IF TcpCaptureIsSome
    THEN UNCHANGED <<capture, stop, join, lpc, apc, tcp_last_error, binds>>
    ELSE /\ binds < MaxBinds
         /\ binds' = binds + 1
         /\ apc' = apc
         /\ \/ ~port_taken /\ SpawnListener /\ tcp_last_error' = "None"
            \/ BindError /\ tcp_last_error' = "Some"

\* set_tcp_capture(false, ..): take the capture and stop it
SetTcpCaptureOff ==
    IF TcpCaptureIsSome
    THEN StopBody /\ UNCHANGED <<capture, lpc, tcp_last_error, binds>>
    ELSE UNCHANGED <<capture, stop, join, lpc, apc, tcp_last_error, binds>>

\* `self.tcp_capture.is_none() && self.tcp_last_error.is_none()`
TickMayStartAlways(is_none, no_error) == is_none
TickMayStart(is_none, no_error) == is_none /\ no_error

\* update(): the synchronisation of the listener with the checkbox, then
\* try_recv_all on the capture that is held
UpdateTick ==
    /\ AppIdle
    /\ last' = "tick"
    /\ tcp_enabled' = tcp_enabled
    /\ IF tcp_enabled
       THEN IF TickMayStart(~TcpCaptureIsSome, tcp_last_error = "None")
            THEN SetTcpCaptureOn
            ELSE UNCHANGED <<capture, stop, join, lpc, apc, tcp_last_error, binds>>
       ELSE SetTcpCaptureOff
    /\ IF capture' = "running" /\ apc' = "idle"
       THEN delivered' = delivered \o TryIter(chan) /\ chan' = <<>>
       ELSE UNCHANGED <<delivered, chan>>
    /\ UNCHANGED <<cur, buf, backlog, conns, port_taken>>
    /\ UNCHANGED <<parseVars, encVars, jobVars>>

\* the checkbox is toggled (app.rs:282-290)
Checkbox ==
    /\ AppIdle
    /\ last' = "checkbox"
    /\ tcp_enabled' = ~tcp_enabled
    /\ IF tcp_enabled' THEN SetTcpCaptureOn ELSE SetTcpCaptureOff
    /\ UNCHANGED <<cur, buf, chan, delivered, backlog, conns, port_taken>>
    /\ UNCHANGED <<parseVars, encVars, jobVars>>

\* the listener thread holds the listening socket until it exits
PortOurs == lpc \in {"top", "accept", "read"}

\* another program starts, or stops, listening on the port
OtherTakesPort ==
    /\ ~port_taken /\ ~PortOurs
    /\ port_taken' = TRUE
    /\ UNCHANGED <<tcp_enabled, tcp_last_error, binds, last>>
    /\ UNCHANGED <<parseVars, captureVars, encVars, jobVars>>

OtherFreesPort ==
    /\ port_taken
    /\ port_taken' = FALSE
    /\ UNCHANGED <<tcp_enabled, tcp_last_error, binds, last>>
    /\ UNCHANGED <<parseVars, captureVars, encVars, jobVars>>

AppInit == ParseIdle /\ CaptureStart /\ AppStart /\ EncIdle

AppNext ==
    \/ UpdateTick
    \/ Checkbox
    \/ OtherTakesPort
    \/ OtherFreesPort
    \/ ListenerCheckStop
    \/ AcceptWouldBlock
    \/ AcceptError
    \/ StopReturns
    \/ DropCapture

AppSpec == AppInit /\ [][AppNext]_vars

(***************************************************************************)
(* The job history of app.rs.  A JobEntry is modelled by its id: the ids   *)
(* are handed out in rising order and the jobs are pushed at the end of    *)
(* the list, so the list is also ordered by created_at, and the jobs that  *)
(* `retain` drops for their age are a prefix of it.                        *)
(***************************************************************************)
tcpVars == <<tcp_enabled, tcp_last_error, binds, last, port_taken>>

\* the values the "Max jobs" slider (1..=100) is moved to
SliderStops == {1, 2, 3, DefaultMaxJobs}

\* self.jobs.iter().position(|j| j.id == id)
Position(js, id) ==
    IF \E k \in 1..Len(js) : js[k] = id
    THEN SomeIdx((CHOOSE k \in 1..Len(js) : js[k] = id /\ \A j \in 1..(k - 1) : js[j] # id) - 1)
    ELSE NoneIdx

\* self.active_job().map(|j| j.id)
ActiveId(js, act) ==
    IF act.some /\ act.val < Len(js) THEN SomeIdx(js[act.val + 1]) ELSE NoneIdx

\* the last n entries of js
LastN(js, n) == SubSeq(js, Len(js) - n + 1, Len(js))

\* prune_jobs that leaves the index as it was when the job list is not empty
prune_jobs_keeping_index(js, act, max, aged) ==
    LET kept == SubSeq(js, aged + 1, Len(js))
        cut == IF Len(kept) > max THEN LastN(kept, max) ELSE kept
    IN  IF js = <<>> \/ cut = <<>> THEN [jobs |-> <<>>, active |-> NoneIdx]
        ELSE [jobs |-> cut,
              active |-> IF act.some /\ act.val < Len(cut) THEN act
                         ELSE SomeIdx(Len(cut) - 1)]

\* prune_jobs on the list js with active index act, under max_jobs = max;
\* aged is the number of jobs older than prune_after (0 when the pruning
\* by age is off)
prune_jobs(js, act, max, aged) ==
    LET active_id == ActiveId(js, act)
        kept == SubSeq(js, aged + 1, Len(js))
        cut == IF Len(kept) > max THEN LastN(kept, max) ELSE kept
    IN  IF js = <<>> THEN [jobs |-> <<>>, active |-> NoneIdx]
        ELSE IF cut = <<>> THEN [jobs |-> <<>>, active |-> NoneIdx]
        ELSE IF active_id.some /\ Position(cut, active_id.val).some
        THEN [jobs |-> cut, active |-> Position(cut, active_id.val)]
        ELSE [jobs |-> cut, active |-> SomeIdx(Len(cut) - 1)]

\* the numbers of jobs that may have passed prune_after among the first n
Aged(n) == IF auto_prune_by_age THEN 0..n ELSE {0}

JobsUnchanged == UNCHANGED <<parseVars, captureVars, encVars, tcpVars>>

\* push_new_job: the job gets the next id, is pushed and made active, then
\* prune_jobs runs; the job just created is never past prune_after
PushNewJob ==
    /\ next_job_id <= MaxJobId
    /\ \E aged \in Aged(Len(jobs)) :
          LET pushed == Append(jobs, next_job_id)
              p == prune_jobs(pushed, SomeIdx(Len(pushed) - 1), max_jobs, aged)
          IN  jobs' = p.jobs /\ active_job_idx' = p.active
    /\ next_job_id' = next_job_id + 1
    /\ job_op' = "push"
    /\ UNCHANGED <<max_jobs, auto_prune_by_age>>
    /\ JobsUnchanged

\* js without its entry at index idx (counted from 0)
Removed(js, idx) == SubSeq(js, 1, idx) \o SubSeq(js, idx + 2, Len(js))

\* ui_job_tabs: the close button of tab idx
CloseTab ==
    /\ jobs # <<>>
    /\ \E idx \in 0..(Len(jobs) - 1) :
          /\ jobs' = Removed(jobs, idx)
          /\ active_job_idx' =
                IF jobs' = <<>> THEN NoneIdx
                ELSE IF active_job_idx.some
                THEN IF idx = active_job_idx.val
                     THEN SomeIdx(Min(Max(active_job_idx.val - 1, 0), Len(jobs') - 1))
                     ELSE IF idx < active_job_idx.val
                     THEN SomeIdx(active_job_idx.val - 1)
                     ELSE active_job_idx
                ELSE active_job_idx
    /\ job_op' = "close"
    /\ UNCHANGED <<next_job_id, max_jobs, auto_prune_by_age>>
    /\ JobsUnchanged

\* ui_job_tabs: tab idx is clicked
SelectTab ==
    /\ jobs # <<>>
    /\ \E idx \in 0..(Len(jobs) - 1) : active_job_idx' = SomeIdx(idx)
    /\ job_op' = "select"
    /\ UNCHANGED <<jobs, next_job_id, max_jobs, auto_prune_by_age>>
    /\ JobsUnchanged

\* ui_settings_modal: the "clear history" button
ClearHistory ==
    /\ jobs' = <<>>
    /\ active_job_idx' = NoneIdx
    /\ job_op' = "clear"
    /\ UNCHANGED <<next_job_id, max_jobs, auto_prune_by_age>>
    /\ JobsUnchanged

\* ui_settings_modal: the "Max jobs" slider and the "prune by age" checkbox
SetMaxJobs ==
    /\ \E n \in SliderStops \ {max_jobs} : max_jobs' = n
    /\ job_op' = "settings"
    /\ UNCHANGED <<jobs, active_job_idx, next_job_id, auto_prune_by_age>>
    /\ JobsUnchanged

ToggleAutoPrune ==
    /\ auto_prune_by_age' = ~auto_prune_by_age
    /\ job_op' = "settings"
    /\ UNCHANGED <<jobs, active_job_idx, next_job_id, max_jobs>>
    /\ JobsUnchanged

\* update(): self.prune_jobs()
UpdatePrune ==
    /\ \E aged \in Aged(Len(jobs)) :
          LET p == prune_jobs(jobs, active_job_idx, max_jobs, aged)
          IN  jobs' = p.jobs /\ active_job_idx' = p.active
    /\ job_op' = "prune"
    /\ UNCHANGED <<next_job_id, max_jobs, auto_prune_by_age>>
    /\ JobsUnchanged

JobInit == ParseIdle /\ CaptureStart /\ AppStart /\ EncIdle

JobNext ==
    \/ PushNewJob
    \/ CloseTab
    \/ SelectTab
    \/ ClearHistory
    \/ SetMaxJobs
    \/ ToggleAutoPrune
    \/ UpdatePrune

JobSpec == JobInit /\ [][JobNext]_vars
\* C15: a failed bind leaves no capture and no listener thread and records
\* the error; while the error is recorded, the only step that calls start
\* again is the checkbox being switched on: no update tick does.
C15_BindFailureNotRetried ==
    /\ [](tcp_last_error = "Some" <=> capture = "bind_failed")
    /\ [](capture = "bind_failed" => ~TcpCaptureIsSome /\ join = "None" /\ lpc \in {"none", "exited"})
    /\ [][(binds' # binds /\ tcp_last_error = "Some") =>
            (last' = "checkbox" /\ ~tcp_enabled /\ tcp_enabled')]_vars

\* the bind failed, update ticks went by with the checkbox still on and
\* start was not called again, though the port has become free; earlier the
\* user had re-enabled the capture after a first failure
C15_Witness ==
    /\ capture = "bind_failed" /\ tcp_last_error = "Some"
    /\ tcp_enabled /\ last = "tick" /\ binds = 2 /\ ~port_taken

(***************************************************************************)
(* The symbology encoders (app.rs:1170-1572).  A payload is a sequence of  *)
(* bytes, a String the sequence of its code points, and an Option a record *)
(* whose field `some` tells Some from None.                                *)
(***************************************************************************)
NoResult == [some |-> FALSE, runs |-> <<>>, hri |-> <<>>]
SomeResult(runs, hri) == [some |-> TRUE, runs |-> runs, hri |-> hri]

\* length of the ill-formed run at bs[k] that from_utf8_lossy replaces by
\* one U+FFFD (the maximal prefix of a well-formed sequence, at least 1)
Utf8BadLen(bs, k) ==
    LET b0 == bs[k]
        n == Len(bs)
        c(j, lo, hi) == k + j <= n /\ bs[k + j] >= lo /\ bs[k + j] <= hi
        second == IF b0 = 224 THEN c(1, 160, 191)
                  ELSE IF b0 = 237 THEN c(1, 128, 159)
                  ELSE IF b0 = 240 THEN c(1, 144, 191)
                  ELSE IF b0 = 244 THEN c(1, 128, 143)
                  ELSE c(1, 128, 191)
    IN  IF b0 >= 224 /\ b0 <= 239 THEN (IF second THEN 2 ELSE 1)
        ELSE IF b0 >= 240 /\ b0 <= 244
             THEN (IF ~second THEN 1 ELSE IF ~c(2, 128, 191) THEN 2 ELSE 3)
        ELSE 1

REPLACEMENT_CHARACTER == 65533

\* the char decoded at bs[k], and the length of what it stands for
LossyChar(bs, k) ==
    IF Utf8Width(bs, k) = 0 THEN REPLACEMENT_CHARACTER ELSE Utf8Scalar(bs, k, Utf8Width(bs, k))
LossyLen(bs, k) ==
    IF Utf8Width(bs, k) = 0 THEN Utf8BadLen(bs, k) ELSE Utf8Width(bs, k)

RECURSIVE FromUtf8LossyAt(_, _)
\* st.out extended by the chars of bs[st.k..]
FromUtf8LossyAt(bs, st) ==
    IF st.k > Len(bs) THEN st.out
    ELSE FromUtf8LossyAt(bs, [k |-> st.k + LossyLen(bs, st.k),
                              out |-> Append(st.out, LossyChar(bs, st.k))])

\* String::from_utf8_lossy(data)
FromUtf8Lossy(bs) == FromUtf8LossyAt(bs, [k |-> 1, out |-> <<>>])

\* the UTF-8 bytes of one char
EncodeUtf8(c) ==
    IF c < 128 THEN <<c>>
    ELSE IF c < 2048 THEN <<192 + (c \div 64), 128 + (c % 64)>>
    ELSE IF c < 65536 THEN <<224 + (c \div 4096), 128 + ((c \div 64) % 64), 128 + (c % 64)>>
    ELSE <<240 + (c \div 262144), 128 + ((c \div 4096) % 64),
           128 + ((c \div 64) % 64), 128 + (c % 64)>>

\* s.as_bytes()
AsBytes(str) == Concat([k \in 1..Len(str) |-> EncodeUtf8(str[k])])

IsAsciiDigit(c) == c >= 48 /\ c <= 57

RECURSIVE RunsFrom(_, _)
\* the loop of bits01_to_runs from bits[st.k], with `runs`, `current`, `len`
RunsFrom(bits, st) ==
    IF st.k > Len(bits) THEN Append(st.runs, Min(st.len, 255))
    ELSE IF bits[st.k] = st.current
         THEN RunsFrom(bits, [st EXCEPT !.k = @ + 1, !.len = @ + 1])
         ELSE RunsFrom(bits, [k |-> st.k + 1, runs |-> Append(st.runs, Min(st.len, 255)),
                              current |-> bits[st.k], len |-> 1])

bits01_to_runs(bits) ==
    IF bits = <<>> THEN [some |-> FALSE, runs |-> <<>>, start_with_black |-> FALSE]
    ELSE [some |-> TRUE, runs |-> RunsFrom(bits, [k |-> 1, runs |-> <<>>, current |-> bits[1], len |-> 0]),
          start_with_black |-> bits[1] = 1]

PATTERNS ==
    <<
      <<2, 1, 2, 2, 2, 2>>, <<2, 2, 2, 1, 2, 2>>, <<2, 2, 2, 2, 2, 1>>, <<1, 2, 1, 2, 2, 3>>, <<1, 2, 1, 3, 2, 2>>, <<1, 3, 1, 2, 2, 2>>,
      <<1, 2, 2, 2, 1, 3>>, <<1, 2, 2, 3, 1, 2>>, <<1, 3, 2, 2, 1, 2>>, <<2, 2, 1, 2, 1, 3>>, <<2, 2, 1, 3, 1, 2>>, <<2, 3, 1, 2, 1, 2>>,
      <<1, 1, 2, 2, 3, 2>>, <<1, 2, 2, 1, 3, 2>>, <<1, 2, 2, 2, 3, 1>>, <<1, 1, 3, 2, 2, 2>>, <<1, 2, 3, 1, 2, 2>>, <<1, 2, 3, 2, 2, 1>>,
      <<2, 2, 3, 2, 1, 1>>, <<2, 2, 1, 1, 3, 2>>, <<2, 2, 1, 2, 3, 1>>, <<2, 1, 3, 2, 1, 2>>, <<2, 2, 3, 1, 1, 2>>, <<3, 1, 2, 1, 3, 1>>,
      <<3, 1, 1, 2, 2, 2>>, <<3, 2, 1, 1, 2, 2>>, <<3, 2, 1, 2, 2, 1>>, <<3, 1, 2, 2, 1, 2>>, <<3, 2, 2, 1, 1, 2>>, <<3, 2, 2, 2, 1, 1>>,
      <<2, 1, 2, 1, 2, 3>>, <<2, 1, 2, 3, 2, 1>>, <<2, 3, 2, 1, 2, 1>>, <<1, 1, 1, 3, 2, 3>>, <<1, 3, 1, 1, 2, 3>>, <<1, 3, 1, 3, 2, 1>>,
      <<1, 1, 2, 3, 1, 3>>, <<1, 3, 2, 1, 1, 3>>, <<1, 3, 2, 3, 1, 1>>, <<2, 1, 1, 3, 1, 3>>, <<2, 3, 1, 1, 1, 3>>, <<2, 3, 1, 3, 1, 1>>,
      <<1, 1, 2, 1, 3, 3>>, <<1, 1, 2, 3, 3, 1>>, <<1, 3, 2, 1, 3, 1>>, <<1, 1, 3, 1, 2, 3>>, <<1, 1, 3, 3, 2, 1>>, <<1, 3, 3, 1, 2, 1>>,
      <<3, 1, 3, 1, 2, 1>>, <<2, 1, 1, 3, 3, 1>>, <<2, 3, 1, 1, 3, 1>>, <<2, 1, 3, 1, 1, 3>>, <<2, 1, 3, 3, 1, 1>>, <<2, 1, 3, 1, 3, 1>>,
      <<3, 1, 1, 1, 2, 3>>, <<3, 1, 1, 3, 2, 1>>, <<3, 3, 1, 1, 2, 1>>, <<3, 1, 2, 1, 1, 3>>, <<3, 1, 2, 3, 1, 1>>, <<3, 3, 2, 1, 1, 1>>,
      <<3, 1, 4, 1, 1, 1>>, <<2, 2, 1, 4, 1, 1>>, <<4, 3, 1, 1, 1, 1>>, <<1, 1, 1, 2, 2, 4>>, <<1, 1, 1, 4, 2, 2>>, <<1, 2, 1, 1, 2, 4>>,
      <<1, 2, 1, 4, 2, 1>>, <<1, 4, 1, 1, 2, 2>>, <<1, 4, 1, 2, 2, 1>>, <<1, 1, 2, 2, 1, 4>>, <<1, 1, 2, 4, 1, 2>>, <<1, 2, 2, 1, 1, 4>>,
      <<1, 2, 2, 4, 1, 1>>, <<1, 4, 2, 1, 1, 2>>, <<1, 4, 2, 2, 1, 1>>, <<2, 4, 1, 2, 1, 1>>, <<2, 2, 1, 1, 1, 4>>, <<4, 1, 3, 1, 1, 1>>,
      <<2, 4, 1, 1, 1, 2>>, <<1, 3, 4, 1, 1, 1>>, <<1, 1, 1, 2, 4, 2>>, <<1, 2, 1, 1, 4, 2>>, <<1, 2, 1, 2, 4, 1>>, <<1, 1, 4, 2, 1, 2>>,
      <<1, 2, 4, 1, 1, 2>>, <<1, 2, 4, 2, 1, 1>>, <<4, 1, 1, 2, 1, 2>>, <<4, 2, 1, 1, 1, 2>>, <<4, 2, 1, 2, 1, 1>>, <<2, 1, 2, 1, 4, 1>>,
      <<2, 1, 4, 1, 2, 1>>, <<4, 1, 2, 1, 2, 1>>, <<1, 1, 1, 1, 4, 3>>, <<1, 1, 1, 3, 4, 1>>, <<1, 3, 1, 1, 4, 1>>, <<1, 1, 4, 1, 1, 3>>,
      <<1, 1, 4, 3, 1, 1>>, <<4, 1, 1, 1, 1, 3>>, <<4, 1, 1, 3, 1, 1>>, <<1, 1, 3, 1, 4, 1>>, <<1, 1, 4, 1, 3, 1>>, <<3, 1, 1, 1, 4, 1>>,
      <<4, 1, 1, 1, 3, 1>>, <<2, 1, 1, 4, 1, 2>>, <<2, 1, 1, 2, 1, 4>>, <<2, 1, 1, 2, 3, 2>>, <<2, 3, 3, 1, 1, 1, 2>>
    >>

\* chars[k..] with k counted from 0
Rest(q, k) == SubSeq(q, k + 1, Len(q))

\* one turn of the `while let Some(ch) = chars.next()` loop of
\* clean_code128_hri at chars[k] (k counted from 1): the chars it consumes
\* and what it pushes on out
HriTaken(chars, k) ==
    IF chars[k] = 123 /\ k < Len(chars) /\ chars[k + 1] \in {123, 65, 66, 67, 49, 50, 51, 52}
    THEN 2 ELSE 1
HriPushed(chars, k) ==
    IF chars[k] # 123 THEN <<chars[k]>>
    ELSE IF k < Len(chars) /\ chars[k + 1] \in {65, 66, 67, 49, 50, 51, 52} THEN <<>>
    ELSE <<123>>

RECURSIVE CleanHriFrom(_, _)
CleanHriFrom(chars, st) ==
    IF st.k > Len(chars) THEN st.out
    ELSE CleanHriFrom(chars, [k |-> st.k + HriTaken(chars, st.k),
                              out |-> st.out \o HriPushed(chars, st.k)])

clean_code128_hri(bytes) ==
    LET chars == FromUtf8Lossy(bytes)
    IN  IF Len(chars) >= 2 /\ chars[1] = 123 /\ chars[2] \in {65, 66, 67}
        THEN CleanHriFrom(chars, [k |-> 3, out |-> <<>>])
        ELSE CleanHriFrom(chars, [k |-> 1, out |-> <<>>])

\* the code set the payload starts in, and the bytes after its prefix
InitialSet(bytes) ==
    IF Len(bytes) >= 2 /\ bytes[1] = 123 /\ bytes[2] \in {65, 66, 67}
    THEN [set |-> IF bytes[2] = 65 THEN "A" ELSE IF bytes[2] = 66 THEN "B" ELSE "C",
          bytes |-> Rest(bytes, 2)]
    ELSE [set |-> "B", bytes |-> bytes]

StartCodeOfA(set) == 103
StartCode(set) == IF set = "A" THEN 103 ELSE IF set = "B" THEN 104 ELSE 105

\* the symbol value of byte b in code set B, and in code set A
ValueBWithoutDel(b) == IF b >= 32 /\ b < 127 THEN b - 32 ELSE 63 - 32
ValueB(b) == IF b >= 32 /\ b <= 127 THEN b - 32 ELSE 63 - 32
ValueAWithoutFallback(b) == IF b < 32 THEN b + 64 ELSE b - 32
ValueA(b) == IF b < 32 THEN b + 64 ELSE IF b <= 95 THEN b - 32 ELSE 63 - 32

\* one turn of the `while i < bytes.len()` loop of encode_code128_runs, from
\* st = [at (the source's i, counted from 0), set, codes]
Code128Step(bytes, st) ==
    LET b == bytes[st.at + 1]
        has_next == st.at + 1 < Len(bytes)
        n == IF has_next THEN bytes[st.at + 2] ELSE 0
        go(d, set, pushed) == [at |-> st.at + d, set |-> set, codes |-> st.codes \o pushed]
    IN  IF b = 123 /\ has_next /\ n \in {123, 65, 66, 67, 49}
        THEN IF n = 123
             THEN IF st.set = "C" THEN go(2, "B", <<100, 123 - 32>>)
                  ELSE go(2, st.set, <<123 - 32>>)
             ELSE IF n = 65 THEN go(2, "A", <<101>>)
             ELSE IF n = 66 THEN go(2, "B", <<100>>)
             ELSE IF n = 67 THEN go(2, "C", <<99>>)
             ELSE go(2, st.set, <<102>>)
        ELSE IF st.set = "C"
             THEN IF has_next /\ IsAsciiDigit(b) /\ IsAsciiDigit(n)
                  THEN go(2, "C", <<(b - 48) * 10 + (n - 48)>>)
                  ELSE go(0, "B", <<100>>)
             ELSE IF st.set = "B" THEN go(1, "B", <<ValueB(b)>>)
             ELSE go(1, "A", <<ValueA(b)>>)

RECURSIVE Code128Loop(_, _)
Code128Loop(bytes, st) ==
    IF st.at >= Len(bytes) THEN st.codes ELSE Code128Loop(bytes, Code128Step(bytes, st))

\* the codes pushed for bytes, starting in code set `set`
Code128Codes(bytes, set) == Code128Loop(bytes, [at |-> 0, set |-> set, codes |-> <<>>])

RECURSIVE WeightedSum(_, _)
\* `sum` after adding c * (pos + 1) for the codes from index st.pos (0-based) on
WeightedSum(codes, st) ==
    IF st.pos >= Len(codes) THEN st.sum
    ELSE WeightedSum(codes, [pos |-> st.pos + 1,
                             sum |-> st.sum + codes[st.pos + 1] * (st.pos + 1)])

Modulus == 103

\* the weighted sum of the codes alone, the start code left out
Code128ChecksumWithoutStart(start_code, codes) ==
    WeightedSum(codes, [pos |-> 0, sum |-> 0]) % Modulus

\* `sum % 103` of start_code + sum of c * (pos + 1).  The sum is a u32 that
\* wraps; with codes of at most 106 it stays below 2^32 for every payload
\* of fewer than 9000 bytes, so no wrap is modelled.
Code128Checksum(start_code, codes) ==
    WeightedSum(codes, [pos |-> 0, sum |-> start_code]) % Modulus

\* [start_code, codes.., checksum, 106]
AllCodes(payload) ==
    LET init == InitialSet(AsBytes(FromUtf8Lossy(payload)))
        codes == Code128Codes(init.bytes, init.set)
        start_code == StartCode(init.set)
    IN  <<start_code>> \o codes \o <<Code128Checksum(start_code, codes), 106>>

encode_code128_runs(payload) ==
    LET all_codes == AllCodes(payload)
    IN  IF \E k \in 1..Len(all_codes) : all_codes[k] >= Len(PATTERNS)
        THEN NoResult
        ELSE SomeResult(Concat([k \in 1..Len(all_codes) |-> PATTERNS[all_codes[k] + 1]]),
                        clean_code128_hri(InitialSet(AsBytes(FromUtf8Lossy(payload))).bytes))

EAN_L ==
    <<<<0, 0, 0, 1, 1, 0, 1>>,
      <<0, 0, 1, 1, 0, 0, 1>>,
      <<0, 0, 1, 0, 0, 1, 1>>,
      <<0, 1, 1, 1, 1, 0, 1>>,
      <<0, 1, 0, 0, 0, 1, 1>>,
      <<0, 1, 1, 0, 0, 0, 1>>,
      <<0, 1, 0, 1, 1, 1, 1>>,
      <<0, 1, 1, 1, 0, 1, 1>>,
      <<0, 1, 1, 0, 1, 1, 1>>,
      <<0, 0, 0, 1, 0, 1, 1>>>>

EAN_G ==
    <<<<0, 1, 0, 0, 1, 1, 1>>,
      <<0, 1, 1, 0, 0, 1, 1>>,
      <<0, 0, 1, 1, 0, 1, 1>>,
      <<0, 1, 0, 0, 0, 0, 1>>,
      <<0, 0, 1, 1, 1, 0, 1>>,
      <<0, 1, 1, 1, 0, 0, 1>>,
      <<0, 0, 0, 0, 1, 0, 1>>,
      <<0, 0, 1, 0, 0, 0, 1>>,
      <<0, 0, 0, 1, 0, 0, 1>>,
      <<0, 0, 1, 0, 1, 1, 1>>>>

EAN_R ==
    <<<<1, 1, 1, 0, 0, 1, 0>>,
      <<1, 1, 0, 0, 1, 1, 0>>,
      <<1, 1, 0, 1, 1, 0, 0>>,
      <<1, 0, 0, 0, 0, 1, 0>>,
      <<1, 0, 1, 1, 1, 0, 0>>,
      <<1, 0, 0, 1, 1, 1, 0>>,
      <<1, 0, 1, 0, 0, 0, 0>>,
      <<1, 0, 0, 0, 1, 0, 0>>,
      <<1, 0, 0, 1, 0, 0, 0>>,
      <<1, 1, 1, 0, 1, 0, 0>>>>

EAN_PAR ==
    <<<<"L", "L", "L", "L", "L", "L">>,
      <<"L", "L", "G", "L", "G", "G">>,
      <<"L", "L", "G", "G", "L", "G">>,
      <<"L", "L", "G", "G", "G", "L">>,
      <<"L", "G", "L", "L", "G", "G">>,
      <<"L", "G", "G", "L", "L", "G">>,
      <<"L", "G", "G", "G", "L", "L">>,
      <<"L", "G", "L", "G", "L", "G">>,
      <<"L", "G", "L", "G", "G", "L">>,
      <<"L", "G", "G", "L", "G", "L">>>>

RECURSIVE EanSum(_, _)
\* the weighted sum over s.chars().rev().enumerate(), from index j (the source's i) on
EanSum(s, j) ==
    IF j >= Len(s) THEN 0
    ELSE (s[Len(s) - j] - 48) * (IF j % 2 = 0 THEN 3 ELSE 1) + EanSum(s, j + 1)

EanCheckWrongParity(s) == (10 - ((EanSum(s, 1) + (s[Len(s)] - 48)) % 10)) % 10
EanCheck(s) == (10 - (EanSum(s, 0) % 10)) % 10

\* the label when 8 or 13 digits are kept only if their last digit is the
\* check digit of the others
EanLabelRevalidated(digits) ==
    LET s == SelectSeq(digits, IsAsciiDigit)
    IN  IF Len(s) = 7 \/ Len(s) = 12 THEN Append(s, 48 + EanCheck(s))
        ELSE IF Len(s) \in {8, 13} /\ s[Len(s)] # 48 + EanCheck(SubSeq(s, 1, Len(s) - 1))
        THEN <<>>
        ELSE s
\* the digits kept by the filter, with the check digit appended to 7 or 12
EanLabel(digits) ==
    LET s == SelectSeq(digits, IsAsciiDigit)
    IN  IF Len(s) = 7 \/ Len(s) = 12 THEN Append(s, 48 + EanCheck(s)) ELSE s

EanResult(bits, s) ==
    LET r == bits01_to_runs(bits)
    IN  IF ~r.some THEN NoResult
        ELSE IF ~r.start_with_black THEN NoResult
        ELSE SomeResult(r.runs, s)

encode_ean_runs(digits) ==
    LET s == EanLabel(digits)
    IN  IF Len(s) = 13
        THEN LET parity == EAN_PAR[s[1] - 48 + 1]
                 left == [k \in 1..6 |-> IF parity[k] = "G" THEN EAN_G[s[k + 1] - 48 + 1]
                                         ELSE EAN_L[s[k + 1] - 48 + 1]]
                 right == [k \in 1..6 |-> EAN_R[s[k + 7] - 48 + 1]]
             IN  EanResult(<<1, 0, 1>> \o Concat(left) \o <<0, 1, 0, 1, 0>>
                           \o Concat(right) \o <<1, 0, 1>>, s)
        ELSE IF Len(s) = 8
        THEN LET left == [k \in 1..4 |-> EAN_L[s[k] - 48 + 1]]
                 right == [k \in 1..4 |-> EAN_R[s[k + 4] - 48 + 1]]
             IN  EanResult(<<1, 0, 1>> \o Concat(left) \o <<0, 1, 0, 1, 0>>
                           \o Concat(right) \o <<1, 0, 1>>, s)
        ELSE NoResult

\* fn pat(d: u8) -> [u8; 5]
ItfPat(d) ==
    IF d = 0 THEN <<1, 1, 3, 3, 1>>
    ELSE IF d = 1 THEN <<3, 1, 1, 1, 3>>
    ELSE IF d = 2 THEN <<1, 3, 1, 1, 3>>
    ELSE IF d = 3 THEN <<3, 3, 1, 1, 1>>
    ELSE IF d = 4 THEN <<1, 1, 3, 1, 3>>
    ELSE IF d = 5 THEN <<3, 1, 3, 1, 1>>
    ELSE IF d = 6 THEN <<1, 3, 3, 1, 1>>
    ELSE IF d = 7 THEN <<1, 1, 1, 3, 3>>
    ELSE IF d = 8 THEN <<3, 1, 1, 3, 1>>
    ELSE <<1, 3, 1, 3, 1>>

\* the ten runs of one digit pair, the second digit after the first
ItfPairInSequence(a, b) == ItfPat(a) \o ItfPat(b)
\* the ten runs of one digit pair: pa[k] (bar), pb[k] (space)
ItfPair(a, b) == [k \in 1..10 |-> IF k % 2 = 1 THEN ItfPat(a)[(k + 1) \div 2]
                                  ELSE ItfPat(b)[k \div 2]]

encode_itf_runs(digits) ==
    LET f == SelectSeq(digits, IsAsciiDigit)
        s == IF Len(f) % 2 = 1 THEN <<48>> \o f ELSE f
    IN  IF f = <<>> THEN NoResult
        ELSE SomeResult(<<1, 1, 1, 1>>
                        \o Concat([k \in 1..(Len(s) \div 2) |->
                                      ItfPair(s[2 * k - 1] - 48, s[2 * k] - 48)])
                        \o <<3, 1, 1>>, s)

\* the encoder arm of render_barcode for selector m: 67 EAN13, 68 EAN8,
\* 70 ITF, 73 CODE128, anything else is not supported
EncodeFor(m, payload) ==
    IF m = 73 THEN encode_code128_runs(payload)
    ELSE IF m = 67 \/ m = 68 THEN encode_ean_runs(FromUtf8Lossy(payload))
    ELSE IF m = 70 THEN encode_itf_runs(FromUtf8Lossy(payload))
    ELSE NoResult

(***************************************************************************)
(* Payloads.  Code128: every short sequence over a control byte, digits,   *)
(* letters (the ones that name code sets among them), '?', '{', DEL and a  *)
(* byte that is not UTF-8, and two long runs of 'A' that reach the modulus *)
(* of the checksum.  EAN: the digits "40123456789" of the specification's  *)
(* example behind every choice of leading digits, cut to 7, 8, 11, 12 and  *)
(* 13 digits, and the 12-digit ones with a dash inside.  ITF: every short  *)
(* sequence over three digits and a letter.                                *)
(***************************************************************************)
CodeBytes == {1, 49, 50, 63, 65, 66, 67, 123, 127, 200}
Code128Inputs == SeqsUpTo(CodeBytes, MaxCode)
LongInputs == {[k \in 1..n |-> 65] : n \in {Modulus - 1, Modulus}}

\* "40123456789"
SpecExample == <<52, 48, 49, 50, 51, 52, 53, 54, 55, 56, 57>>
EanLengths == {7, 8, 11, 12, 13}
EanPlain(n) == {v \o SubSeq(SpecExample, 1, n - MaxEanVar) : v \in [1..MaxEanVar -> 48..57]}
Dashed(x) == <<x[1], 45>> \o Tail(x)
EanInputs ==
    UNION {EanPlain(n) : n \in EanLengths} \cup {Dashed(x) : x \in EanPlain(12)} \cup {SpecExample}

ItfBytes == {48, 49, 57, 65}
ItfInputs == SeqsUpTo(ItfBytes, MaxItf)

EncInputs == Code128Inputs \cup LongInputs \cup EanInputs \cup ItfInputs

EncInit ==
    /\ ParseIdle /\ CaptureStart /\ AppStart
    /\ enc_data \in EncInputs
    /\ enc_m = -1
    /\ enc_out = NoResult

\* render_barcode(state, m, data, ..) up to the encoder's result
Render(m) ==
    /\ enc_m = -1
    /\ enc_m' = m
    /\ enc_out' = EncodeFor(m, enc_data)
    /\ UNCHANGED enc_data
    /\ UNCHANGED <<parseVars, captureVars, appVars, jobVars>>

RenderCode128 == Render(73)
RenderEan13 == Render(67)
RenderEan8 == Render(68)
RenderItf == Render(70)
\* `_ => return None`: UPC-A (65) stands for the selectors not supported
RenderUnsupported == Render(65)

EncNext ==
    \/ RenderCode128
    \/ RenderEan13
    \/ RenderEan8
    \/ RenderItf
    \/ RenderUnsupported

EncSpec == EncInit /\ [][EncNext]_vars

RECURSIVE SumRange(_, _, _)
\* q[a] + .. + q[b]
SumRange(q, a, b) ==
    IF a > b THEN 0
    ELSE IF a = b THEN q[a]
    ELSE SumRange(q, a, (a + b) \div 2) + SumRange(q, (a + b) \div 2 + 1, b)
SumSeq(q) == SumRange(q, 1, Len(q))

\* the payload is exactly n ASCII digits
IsDigits(x, n) == Len(x) = n /\ \A k \in 1..Len(x) : IsAsciiDigit(x[k])

\* the check digit of twelve digits: weights 3, 1, 3, .. from the rightmost
Weighted12(x) ==
    3 * (x[12] + x[10] + x[8] + x[6] + x[4] + x[2] - 6 * 48)
    + (x[11] + x[9] + x[7] + x[5] + x[3] + x[1] - 6 * 48)
CheckDigit12(x) == (10 - (Weighted12(x) % 10)) % 10

\* the modules the runs stand for when the first run is dark (1)
Modules(runs) == Concat([k \in 1..Len(runs) |-> [j \in 1..runs[k] |-> k % 2]])

\* the label has 13 digits, the first twelve as given, the last the check
\* digit; the runs cover 95 modules and, read with a dark first run, show
\* the guards 101 .. 01010 .. 101
EanLabelOk(x) ==
    /\ enc_out.some
    /\ Len(enc_out.hri) = 13
    /\ SubSeq(enc_out.hri, 1, 12) = x
    /\ enc_out.hri[13] = 48 + CheckDigit12(x)
    /\ SumSeq(enc_out.runs) = 95
    /\ SubSeq(Modules(enc_out.runs), 1, 3) = <<1, 0, 1>>
    /\ SubSeq(Modules(enc_out.runs), 46, 50) = <<0, 1, 0, 1, 0>>
    /\ SubSeq(Modules(enc_out.runs), 93, 95) = <<1, 0, 1>>

EanCalled == enc_m \in {67, 68}

\* C16 as stated: the specification's example and every 12-digit payload
\* give a 13-digit label with the weighted check digit and 95 modules.
C16_EanExampleEncodes ==
    (EanCalled /\ (enc_data = SpecExample \/ IsDigits(enc_data, 12))) => EanLabelOk(enc_data)

\* C16 amended: every payload of exactly twelve digits gives a 13-digit label
\* whose last digit is the check digit of the twelve (weights 3/1 from the
\* rightmost) and runs that start dark and sum to 95 modules.
C16_Ean12Encodes ==
    (EanCalled /\ IsDigits(enc_data, 12)) => EanLabelOk(enc_data)

\* a 12-digit payload was encoded and its check digit is not 0
C16_Witness ==
    /\ enc_m = 67 /\ IsDigits(enc_data, 12) /\ enc_data[1] = 57
    /\ enc_out.some /\ enc_out.hri[13] # 48

\* the payload stays in code set B: bytes 32..127 and no '{'
PlainB(x) == \A k \in 1..Len(x) : x[k] >= 32 /\ x[k] <= 127 /\ x[k] # 123

\* (start + sum over i of value_i * (i + 1)) mod 103, value_i the code set B
\* value of the i-th payload char counted from 0
ClaimedChecksum(start, x) == (start + SumSeq([k \in 1..Len(x) |-> (x[k] - 32) * k])) % 103

\* the six widths of the checksum symbol in the result for an n-char payload
ChecksumRuns(n) == SubSeq(enc_out.runs, 6 * (n + 1) + 1, 6 * (n + 2))

Code128Called == enc_m = 73

\* C17 as stated: under code set B the checksum symbol is
\* (103 + sum of value_i * (i + 1)) mod 103.
C17_ChecksumFrom103 ==
    (Code128Called /\ PlainB(enc_data)) =>
       /\ enc_out.some
       /\ ChecksumRuns(Len(enc_data)) = PATTERNS[ClaimedChecksum(103, enc_data) + 1]

\* C17 amended: under code set B the checksum symbol is
\* (104 + sum of value_i * (i + 1)) mod 103, 104 being the start code of
\* code set B.
C17_ChecksumFromStartB ==
    (Code128Called /\ PlainB(enc_data)) =>
       /\ enc_out.some
       /\ ChecksumRuns(Len(enc_data)) = PATTERNS[ClaimedChecksum(104, enc_data) + 1]

\* a three-char code set B payload whose weighted sum passes the modulus
C17_Witness ==
    /\ Code128Called /\ PlainB(enc_data) /\ Len(enc_data) = 3 /\ enc_out.some
    /\ enc_data[1] # enc_data[3]
    /\ SumSeq([k \in 1..3 |-> (enc_data[k] - 32) * k]) > 103

\* the checksum value computed for payload x
ChecksumOf(x) == AllCodes(x)[Len(AllCodes(x)) - 1]

\* x with its p-th char replaced by c
Replaced(x, p, c) == [x EXCEPT ![p] = c]

\* the code set B chars the payloads are made of
PlainBytes == {c \in CodeBytes : PlainB(<<c>>)}

\* replacing the p-th char of the encoded payload by any different code
\* set B char gives a checksum other than the one in the result
EditChangesChecksum(p) ==
    \A c \in PlainBytes \ {enc_data[p]} :
       ChecksumRuns(Len(enc_data)) # PATTERNS[ChecksumOf(Replaced(enc_data, p, c)) + 1]

DigitCount(x) == Len(SelectSeq(FromUtf8Lossy(x), IsAsciiDigit))

\* a payload no symbol sequence of the symbology stands for: for Code128 a
\* byte beyond ASCII, for EAN a digit count other than 7, 8, 12 or 13, for ITF
\* no digit at all
Malformed(m, x) ==
    IF m = 73 THEN \E k \in 1..Len(x) : x[k] >= 128
    ELSE IF m = 67 \/ m = 68 THEN DigitCount(x) \notin {7, 8, 12, 13}
    ELSE DigitCount(x) = 0

\* C19: each of the three encoders returns absence for an empty payload and
\* for a payload malformed for its symbology.
C19_AbsentOnEmptyOrMalformed ==
    (enc_m \in {73, 67, 68, 70} /\ (enc_data = <<>> \/ Malformed(enc_m, enc_data))) =>
       ~enc_out.some

\* the part of C19 that the EAN and ITF encoders do keep
EanItfAbsentOnEmptyOrMalformed ==
    (enc_m \in {67, 68, 70} /\ (enc_data = <<>> \/ Malformed(enc_m, enc_data))) =>
       ~enc_out.some

\* the cursor is on a raster-image opcode GS v 0 whose eight header bytes
\* and whole payload of w * h bytes are in the buffer
RasterWidth == At(i + 4) + 256 * At(i + 5)
RasterHeight == At(i + 6) + 256 * At(i + 7)
RasterComplete ==
    /\ Running
    /\ i + 8 <= Len(data)
    /\ At(i) = GS /\ At(i + 1) = 118 /\ At(i + 2) = 48
    /\ i + 8 + RasterWidth * RasterHeight <= Len(data)

\* C20: an iteration that starts on a complete raster-image opcode pushes
\* exactly one command, a RasterImage whose width and height are the
\* little-endian 16-bit values of the header and whose data is the
\* width * height bytes after the 8-byte header, and leaves the cursor on
\* the first byte after them.
C20_RasterImageDecoded ==
    [][RasterComplete =>
         /\ Len(commands') = Len(commands) + 1
         /\ SubSeq(commands', 1, Len(commands)) = commands
         /\ commands'[Len(commands')][2] =
               [kind |-> "RasterImage", m |-> At(i + 3),
                width_bytes |-> RasterWidth, height |-> RasterHeight,
                data |-> SubSeq(data, i + 9, i + 8 + RasterWidth * RasterHeight)]
         /\ i' = i + 8 + RasterWidth * RasterHeight
         /\ ~panicked']_vars

\* a 256-byte-wide raster image was decoded and the scan goes on behind it
C20_Witness ==
    /\ op = "GsRasterImage" /\ commands # <<>> /\ Running
    /\ Kind(commands[Len(commands)]) = "RasterImage"
    /\ commands[Len(commands)][2].width_bytes = 256
    /\ Len(commands[Len(commands)][2].data) = 256

(***************************************************************************)
(* The text-encoding selector.  The application parses a job again when    *)
(* the user selects another encoding (app.rs:383-385, reparse_all_jobs):   *)
(* SelectCodePage keeps what the finished call returned and starts the     *)
(* next call on the same buffer under the new selector.                    *)
(***************************************************************************)
MaxText == 3     \* fragments in a buffer drawn from the text library

CodePages == {"Utf8Lossy", "Cp437", "Cp850", "Windows1252"}

\* text runs (ASCII, valid UTF-8, the encoding of U+FFFD, bytes that are not
\* valid UTF-8) and opcodes that end a run, change the state or carry bytes;
\* TextInputs adds the text buffers of the unit tests, a surrogate, an
\* overlong form, a value beyond U+10FFFF, a four-byte char, a byte
\* Windows-1252 leaves undefined and a char cut short
TextFrags ==
    { <<65>>, <<195, 169>>, <<161>>, <<130>>, <<239, 191, 189>>, <<195>>,
      <<LF>>, <<9>>, <<ESC, 69, 1>>, <<GS, 107, 73, 1, 161>> }

TextInputs ==
    {Concat(fs) : fs \in SeqsUpTo(TextFrags, MaxText)}
    \cup { <<251, 172, 61, 171>>, <<161, 71, 114, 97, 99, 105, 97, 115>>,
           <<237, 160, 128>>, <<192, 128>>, <<244, 144, 128, 128>>, <<240, 159, 152, 128>>,
           <<65, 129, 66>>, <<226, 130, 172, 10, 226, 130>> }

TextInit ==
    /\ ParseInitFrom(TextInputs)

SelectCodePage(cp) ==
    /\ ~Running /\ ~panicked
    /\ cp # codepage
    /\ parsed_commands' = commands
    /\ parsed_with' = codepage
    /\ codepage' = cp
    /\ i' = 0
    /\ state' = DefaultState
    /\ qr_model' = 2
    /\ qr_module_size' = 4
    /\ qr_ecc' = 48
    /\ qr_data' = <<>>
    /\ commands' = <<>>
    /\ panicked' = FALSE
    /\ iters' = 0
    /\ rd' = {}
    /\ sl' = {}
    /\ op' = "start"
    /\ UNCHANGED <<data, script>>
    /\ UNCHANGED nonParseVars

TextNext ==
    \/ StepText
    \/ StepLF
    \/ StepEscBold
    \/ StepGsBarcode
    \/ \E cp \in CodePages : SelectCodePage(cp)

TextSpec == TextInit /\ [][TextNext]_vars

\* two command lists agree in everything but the strings of their Text commands
SameButText(a, b) ==
    /\ Len(a) = Len(b)
    /\ \A k \in 1..Len(a) :
          /\ Snapshot(a[k]) = Snapshot(b[k])
          /\ Kind(a[k]) = Kind(b[k])
          /\ IF Kind(a[k]) = "Text" THEN TRUE ELSE a[k][2] = b[k][2]

\* C21: the command list a buffer decodes to under one selector and the list
\* it decodes to under any other have the same length and, position by
\* position, the same kind, the same snapshot and the same payload; only the
\* strings of Text commands may differ.
C21_SelectorIsPureParameter ==
    (parsed_with # "none" /\ ~Running) => SameButText(parsed_commands, commands)

\* a buffer with a barcode and a text run was decoded under CP437 and then
\* under the default selector, and the two lists differ
C21_Witness ==
    /\ parsed_with = "Cp437" /\ codepage = "Utf8Lossy" /\ ~Running
    /\ commands # parsed_commands
    /\ \E k \in 1..Len(commands) : Kind(commands[k]) = "Barcode"
    /\ \E k \in 1..Len(commands) : Kind(commands[k]) = "Text"

\* a Unicode scalar value
IsScalar(c) == c >= 0 /\ c <= 1114111 /\ ~(c >= 55296 /\ c <= 57343)

RECURSIVE IsUtf8From(_, _)
\* bs[k..] is a concatenation of the UTF-8 encodings of scalar values
IsUtf8From(bs, k) ==
    \/ k > Len(bs)
    \/ \E w \in 1..4 :
          /\ k + w - 1 <= Len(bs)
          /\ IsScalar(Utf8Scalar(bs, k, w))
          /\ EncodeUtf8(Utf8Scalar(bs, k, w)) = SubSeq(bs, k, k + w - 1)
          /\ IsUtf8From(bs, k + w)

IsUtf8(bs) == IsUtf8From(bs, 1)

Holds(str, c) == \E k \in 1..Len(str) : str[k] = c

\* bs holds the three bytes that encode U+FFFD
HoldsEncodedReplacement(bs) ==
    \E k \in 1..(Len(bs) - 2) : SubSeq(bs, k, k + 2) = <<239, 191, 189>>

\* the cursor is on a byte that starts a text run, in the default mode
TextRunAtCursor == Running /\ codepage = "Utf8Lossy" /\ At(i) >= SPACE

\* where the run that starts at the cursor ends
RunEnd ==
    CHOOSE j \in i..Len(data) :
       /\ j = Len(data) \/ At(j) < SPACE
       /\ \A k \in i..(j - 1) : At(k) >= SPACE

TextRun == SubSeq(data, i + 1, RunEnd)

\* the iteration pushes one command, a Text, for the whole run
OneTextForRun ==
    /\ Len(commands') = Len(commands) + 1
    /\ SubSeq(commands', 1, Len(commands)) = commands
    /\ Kind(commands'[Len(commands')]) = "Text"
    /\ i' = RunEnd

PushedText == commands'[Len(commands')][2].text

InRange(st) ==
    /\ st.char_width_mul >= 1 /\ st.char_width_mul <= 16
    /\ st.char_height_mul >= 1 /\ st.char_height_mul <= 16
    /\ st.barcode_height >= 1
    /\ st.barcode_module_width >= 1

\* C23: in the snapshot of every pushed command, and in the live state, the
\* width and height multipliers are between 1 and 16 and the barcode height
\* and module width are at least 1, whatever the argument bytes were.
C23_MultipliersInRange ==
    /\ InRange(state)
    /\ \A k \in 1..Len(commands) : InRange(Snapshot(commands[k]))

\* GS h 0 was decoded and the text behind it carries a barcode height of 1
C23_Witness ==
    /\ data = <<GS, 104, 0, 65>> /\ ~Running
    /\ Len(commands) = 2
    /\ Kind(commands[2]) = "Text"
    /\ Snapshot(commands[2]).barcode_height = 1

EscOpcodes == {64, 69, 97}

\* the prefix at the cursor is followed by an opcode the decoder does not know
UnknownOpcodeAtCursor ==
    /\ Running /\ i + 1 < Len(data)
    /\ \/ At(i) = ESC /\ At(i + 1) \notin EscOpcodes
       \/ At(i) = GS /\ At(i + 1) \notin GsOpcodes

\* the prefix at the cursor is the last byte of the buffer
PrefixAtEnd == Running /\ At(i) \in {ESC, GS} /\ i + 1 = Len(data)

\* C24: an ESC or GS followed by an opcode the decoder does not know pushes
\* exactly one EscUnknown / GsUnknown command carrying the opcode byte and
\* moves the cursor by 2, onto the byte after the opcode; an ESC or GS that
\* is the last byte of the buffer pushes nothing and ends the scan.
C24_UnknownOpcodeSkipsTwo ==
    /\ [][UnknownOpcodeAtCursor =>
            /\ commands' = Append(commands,
                                  Cmd(state, [kind |-> IF At(i) = ESC THEN "EscUnknown"
                                                       ELSE "GsUnknown",
                                              byte |-> At(i + 1)]))
            /\ i' = i + 2
            /\ state' = state]_vars
    /\ [][PrefixAtEnd => (commands' = commands /\ i' = Len(data) /\ ~Running')]_vars

\* ESC ! was taken as an unknown opcode and the line feed behind it was then
\* decoded on its own
C24_Witness ==
    /\ data = <<ESC, 33, LF>> /\ ~Running
    /\ commands = <<Cmd(DefaultState, [kind |-> "EscUnknown", byte |-> 33]),
                    Cmd(DefaultState, [kind |-> "Newline"])>>

\* the cursor is on a GS opcode whose fixed-size header is in the buffer and
\* declares a payload that runs past the end of the buffer: a raster image
\* GS v 0 m xL xH yL yH, a length-prefixed barcode GS k m n (m > 6) or a
\* function GS ( k pL pH
TruncatedRaster ==
    /\ Running /\ At(i) = GS /\ i + 8 <= Len(data)
    /\ At(i + 1) = 118 /\ At(i + 2) = 48
    /\ i + 8 + RasterWidth * RasterHeight > Len(data)

TruncatedBarcode ==
    /\ Running /\ At(i) = GS /\ i + 4 <= Len(data)
    /\ At(i + 1) = 107 /\ At(i + 2) > 6
    /\ i + 4 + At(i + 3) > Len(data)

TruncatedFunction ==
    /\ Running /\ At(i) = GS /\ i + 5 <= Len(data)
    /\ At(i + 1) = 40 /\ At(i + 2) = 107
    /\ i + 5 + At(i + 3) + 256 * At(i + 4) > Len(data)

TruncatedPayload == TruncatedRaster \/ TruncatedBarcode \/ TruncatedFunction

\* the bytes of the fixed-size header of the opcode at the cursor
HeaderLen == IF TruncatedRaster THEN 8 ELSE IF TruncatedBarcode THEN 4 ELSE 5

\* C25: an iteration that starts on a GS opcode whose declared payload runs
\* past the end of the buffer pushes no command, leaves the cursor on the
\* first byte after the opcode's fixed-size header, and the scan goes on
\* from there.
C25_TruncatedSkipsHeader ==
    [][TruncatedPayload =>
         /\ commands' = commands
         /\ i' = i + HeaderLen
         /\ ~panicked']_vars

\* what the code does instead: it pushes no command and moves the cursor by
\* 2, onto the byte after the opcode byte, so the rest of the header is
\* decoded as if it were text and control bytes
TruncatedSkipsPrefixOnly ==
    [][TruncatedPayload =>
         /\ commands' = commands
         /\ i' = i + 2
         /\ ~panicked']_vars

\* a raster header that declares 2 bytes, with 1 byte behind it, was decoded:
\* no image, and the header's '0' came out as a Text command
HeaderDecodedAsText ==
    /\ data = <<GS, 118, 48, 0, 2, 0, 1, 0, 128>> /\ ~Running
    /\ CommandsOfKind("RasterImage") = <<>>
    /\ commands # <<>> /\ commands[1][2] = [kind |-> "Text", text |-> <<48>>]

\* the cursor is on GS k m with the mode byte m in the buffer
BarcodeAtCursor == Running /\ At(i) = GS /\ i + 2 < Len(data) /\ At(i + 1) = 107

BarcodeMode == At(i + 2)

\* the index of the first NUL after m, or the length of the buffer
FirstNul ==
    CHOOSE j \in (i + 3)..Len(data) :
       /\ j = Len(data) \/ At(j) = NUL
       /\ \A k \in (i + 3)..(j - 1) : At(k) # NUL

\* the length byte and the bytes it counts are in the buffer
Counted == i + 3 < Len(data) /\ i + 4 + At(i + 3) <= Len(data)

PushesBarcode(payload) ==
    commands' = Append(commands, Cmd(state, [kind |-> "Barcode", m |-> BarcodeMode,
                                             data |-> payload]))

\* C26: GS k m with m <= 6 pushes one Barcode of mode m whose payload is the
\* bytes after m up to the first NUL, and leaves the cursor behind that NUL,
\* or at the end of the buffer if there is none; with m > 6 and the length
\* byte n and n more bytes present it pushes one Barcode of mode m whose
\* payload is those n bytes, and leaves the cursor just behind them.
C26_BarcodeFraming ==
    /\ [][(BarcodeAtCursor /\ BarcodeMode <= 6) =>
            /\ PushesBarcode(SubSeq(data, i + 4, FirstNul))
            /\ i' = IF FirstNul < Len(data) THEN FirstNul + 1 ELSE Len(data)
            /\ ~panicked']_vars
    /\ [][(BarcodeAtCursor /\ BarcodeMode > 6 /\ Counted) =>
            /\ PushesBarcode(SubSeq(data, i + 5, i + 4 + At(i + 3)))
            /\ i' = i + 4 + At(i + 3)
            /\ ~panicked']_vars

\* a mode-6 barcode took the bytes up to its NUL, line feed included, and the
\* letter behind the NUL was decoded on its own
C26_Witness ==
    /\ data = <<GS, 107, 6, 1, LF, 0, 65>> /\ ~Running
    /\ Len(commands) = 2
    /\ commands[1][2] = [kind |-> "Barcode", m |-> 6, data |-> <<1, LF>>]
    /\ commands[2][2] = [kind |-> "Text", text |-> <<65>>]

MaxQr == 4       \* QR functions and resets in a buffer

QrOp(f, n, p) == [f |-> f, n |-> n, p |-> p]

\* set model / module size / ecc to n (an empty p: the function carries no
\* argument), store p under sub-mode n (n = -1: no sub-mode byte), print, ESC @
QrOps ==
    { QrOp("model", 49, <<49, 0>>), QrOp("size", 6, <<6>>), QrOp("ecc", 51, <<51>>),
      QrOp("size", 0, <<>>),
      QrOp("store", 48, <<72, 73>>), QrOp("store", 48, <<74>>),
      QrOp("store", 49, <<72>>), QrOp("store", -1, <<>>),
      QrOp("print", 48, <<>>), QrOp("reset", 0, <<>>) }

QrFn(f) ==
    IF f = "model" THEN 65 ELSE IF f = "size" THEN 67 ELSE IF f = "ecc" THEN 69
    ELSE IF f = "store" THEN 80 ELSE 81

\* the bytes of one function: GS ( k pL pH 0x31 fn payload
QrBytes(o) ==
    IF o.f = "reset" THEN <<ESC, 64>>
    ELSE LET payload == IF o.f = "store" THEN (IF o.n >= 0 THEN <<o.n>> \o o.p ELSE <<>>)
                        ELSE IF o.f = "print" THEN <<o.n>>
                        ELSE o.p
         IN  <<GS, 40, 107, 2 + Len(payload), 0, 49, QrFn(o.f)>> \o payload

ScriptBytes(s) == Concat([k \in 1..Len(s) |-> QrBytes(s[k])])

QrScripts == SeqsUpTo(QrOps, MaxQr)

QrInit ==
    /\ CaptureStart
    /\ AppStart
    /\ EncIdle
    /\ script \in QrScripts
    /\ data = ScriptBytes(script)
    /\ codepage = "Utf8Lossy"
    /\ i = 0
    /\ state = DefaultState
    /\ qr_model = 2
    /\ qr_module_size = 4
    /\ qr_ecc = 48
    /\ qr_data = <<>>
    /\ commands = <<>>
    /\ panicked = FALSE
    /\ iters = 0
    /\ rd = {}
    /\ sl = {}
    /\ op = "start"
    /\ parsed_commands = <<>>
    /\ parsed_with = "none"

QrNext ==
    \/ StepGsParenK
    \/ StepEscInit

QrSpec == QrInit /\ [][QrNext]_vars

\* the function the scan is about to decode: iteration k decodes script[k]
NextOp == script[iters + 1]

\* C28: a store function appends its payload to the assembly buffer only when
\* its sub-mode byte is 0x30; with another sub-mode byte, or with none, the
\* buffer stays as it is.  In both cases the function is consumed whole, no
\* command is pushed and the model, module size and ecc stay as they are.
C28_StoreOnlyUnderSubMode48 ==
    [][(Running /\ NextOp.f = "store") =>
         /\ qr_data' = IF NextOp.n = 48 THEN qr_data \o NextOp.p ELSE qr_data
         /\ i' = i + Len(QrBytes(NextOp))
         /\ commands' = commands
         /\ UNCHANGED <<qr_model, qr_module_size, qr_ecc, state>>]_vars

\* "HI" stored under 0x30, "H" offered under 0x31 and a store without a
\* sub-mode byte: the buffer holds "HI" and nothing was pushed
C28_Witness ==
    /\ script = <<QrOp("store", 48, <<72, 73>>), QrOp("store", 49, <<72>>),
                  QrOp("store", -1, <<>>)>>
    /\ ~Running
    /\ qr_data = <<72, 73>>
    /\ commands = <<>>
    /\ i = Len(data)

\* the QR assembly state and the Qr commands a script calls for: each set
\* overwrites its scalar, a store under sub-mode 0x30 appends to the buffer,
\* a print with a non-empty buffer yields one Qr with the scalars as they
\* are at the print and empties the buffer, a reset restores the defaults
QrDefaults == [model |-> 2, size |-> 4, ecc |-> 48, buf |-> <<>>, out |-> <<>>]

QrAfter(a, o) ==
    IF o.f = "reset" THEN [QrDefaults EXCEPT !.out = a.out]
    ELSE IF o.f = "model" THEN (IF o.p # <<>> THEN [a EXCEPT !.model = o.n] ELSE a)
    ELSE IF o.f = "size" THEN (IF o.p # <<>> THEN [a EXCEPT !.size = o.n] ELSE a)
    ELSE IF o.f = "ecc" THEN (IF o.p # <<>> THEN [a EXCEPT !.ecc = o.n] ELSE a)
    ELSE IF o.f = "store" THEN (IF o.n = 48 THEN [a EXCEPT !.buf = @ \o o.p] ELSE a)
    ELSE IF a.buf # <<>>
         THEN [a EXCEPT !.out = Append(@, [kind |-> "Qr", model |-> a.model,
                                           module_size |-> a.size, ecc |-> a.ecc,
                                           data |-> a.buf]),
                        !.buf = <<>>]
         ELSE a

RECURSIVE QrRun(_, _)
\* after the first k functions of script s
QrRun(s, k) == IF k = 0 THEN QrDefaults ELSE QrAfter(QrRun(s, k - 1), s[k])

QrPushed == [k \in 1..Len(CommandsOfKind("Qr")) |-> CommandsOfKind("Qr")[k][2]]

\* C29: for every sequence of QR functions and resets, each print issued
\* with a non-empty assembly buffer pushes exactly one Qr command, which
\* carries the model, module size and ecc most recently set before that
\* print and the concatenation, in order, of the payloads stored since the
\* previous print or reset; the print empties the buffer, so no stored
\* payload is in two Qr commands, and a print with an empty buffer pushes
\* nothing.
C29_PrintEmitsCurrentSettings ==
    /\ QrPushed = QrRun(script, iters).out
    /\ qr_data = QrRun(script, iters).buf
    /\ qr_model = QrRun(script, iters).model
    /\ qr_module_size = QrRun(script, iters).size
    /\ qr_ecc = QrRun(script, iters).ecc

\* "HI" was stored, then the module size set to 6, then "J" stored, then
\* printed: one Qr with module size 6 and data "HIJ", and the buffer is empty
C29_Witness ==
    /\ script = <<QrOp("store", 48, <<72, 73>>), QrOp("size", 6, <<6>>),
                  QrOp("store", 48, <<74>>), QrOp("print", 48, <<>>)>>
    /\ ~Running
    /\ commands = <<Cmd(DefaultState, [kind |-> "Qr", model |-> 2, module_size |-> 6,
                                       ecc |-> 48, data |-> <<72, 73, 74>>])>>
    /\ qr_data = <<>>

\* C30: the command list only grows at its end: an iteration appends what it
\* decoded from the bytes at the cursor and leaves every pair pushed before,
\* snapshot and command, as it was; the cursor only moves forward, so the
\* commands are in the order of the offsets of the bytes they came from, and
\* a later change of the live state or a reset changes no earlier snapshot.
C30_AppendOnly ==
    [][/\ Len(commands') >= Len(commands)
       /\ SubSeq(commands', 1, Len(commands)) = commands
       /\ i' > i
       /\ \A k \in (Len(commands) + 1)..Len(commands') :
             Snapshot(commands'[k]) \in {state, state'}]_vars

\* ESC E 1, "A", ESC @, "B" was decoded: the "A" pushed before the reset
\* still carries the bold snapshot, the "B" the default one
C30_Witness ==
    /\ data = <<ESC, 69, 1, 65, ESC, 64, 66>> /\ ~Running
    /\ Len(commands) = 4
    /\ commands[2] = Cmd([DefaultState EXCEPT !.is_bold = TRUE],
                         [kind |-> "Text", text |-> <<65>>])
    /\ Kind(commands[3]) = "Init"
    /\ commands[4] = Cmd(DefaultState, [kind |-> "Text", text |-> <<66>>])

\* C31: the Size command pushed for GS ! n carries the raw byte n and the
\* width and height multipliers, the values (nibble + 1) that the opcode
\* writes into the state (and so into the command's own snapshot).
C31_SizeCarriesMultipliers ==
    \A k \in 1..Len(commands) :
       Kind(commands[k]) = "Size" =>
          /\ commands[k][2].width = (commands[k][2].raw % 16) + 1
          /\ commands[k][2].height = (commands[k][2].raw \div 16) + 1
          /\ commands[k][2].width = Snapshot(commands[k]).char_width_mul
          /\ commands[k][2].height = Snapshot(commands[k]).char_height_mul

\* what the code does instead: the command carries the two nibbles as they
\* come, one less than the multipliers of its snapshot
SizeCarriesNibbles ==
    \A k \in 1..Len(commands) :
       Kind(commands[k]) = "Size" =>
          /\ commands[k][2].width = commands[k][2].raw % 16
          /\ commands[k][2].height = commands[k][2].raw \div 16
          /\ Snapshot(commands[k]).char_width_mul = commands[k][2].width + 1
          /\ Snapshot(commands[k]).char_height_mul = commands[k][2].height + 1

\* the cursor is on an opcode that writes the state: ESC @, or ESC E, ESC a,
\* GS !, GS H, GS h, GS w, GS f with the argument byte in the buffer
StateOpcodeAtCursor ==
    /\ Running /\ i + 1 < Len(data)
    /\ \/ At(i) = ESC /\ At(i + 1) = 64
       \/ At(i) = ESC /\ At(i + 1) \in {69, 97} /\ i + 2 < Len(data)
       \/ At(i) = GS /\ At(i + 1) \in {33, 72, 104, 119, 102} /\ i + 2 < Len(data)

\* C32: an iteration that does not start on ESC @ or on ESC E, ESC a, GS !,
\* GS H, GS h, GS w, GS f with its argument byte present (an unknown opcode,
\* an opcode cut short, a QR function, a barcode, a raster image, a cut, LF,
\* CR, a text run, an unrecognized byte) leaves every field of the live
\* state as it was.
C32_OnlyStateOpcodesWriteState ==
    [][~StateOpcodeAtCursor => state' = state]_vars

\* bold was set and a cut decoded behind it: the live state and the cut's
\* snapshot are still bold
C32_Witness ==
    /\ data = <<ESC, 69, 1, GS, 86, 0>> /\ ~Running
    /\ op = "GsCut"
    /\ state.is_bold
    /\ Len(commands) = 2 /\ Kind(commands[2]) = "Cut" /\ Snapshot(commands[2]).is_bold

\* the number of symbols the widths of a Code128 result stand for: six
\* widths a symbol, seven for the last
SymbolCount(runs) == (Len(runs) - 1) \div 6

\* the widths of the k-th symbol (counted from 1) of a Code128 result
SymbolRuns(runs, k) ==
    SubSeq(runs, 6 * (k - 1) + 1, IF k = SymbolCount(runs) THEN Len(runs) ELSE 6 * k)

\* the symbol values read back from the widths through the pattern table,
\* -1 where the widths are no pattern of the table
Symbols(runs) ==
    [k \in 1..SymbolCount(runs) |->
        IF \E c \in 1..Len(PATTERNS) : PATTERNS[c] = SymbolRuns(runs, k)
        THEN (CHOOSE c \in 1..Len(PATTERNS) : PATTERNS[c] = SymbolRuns(runs, k)) - 1
        ELSE -1]

\* the start symbol a payload asks for by its prefix
StartOf(x) ==
    IF Len(x) >= 2 /\ x[1] = 123 /\ x[2] = 65 THEN 103
    ELSE IF Len(x) >= 2 /\ x[1] = 123 /\ x[2] = 67 THEN 105
    ELSE 104

\* s is [Start, payload symbols.., checksum, Stop] with the checksum
\* (start + sum of value_k * (k + shift)) mod 103, k the 1-based position of
\* the payload symbol
IsCode128Sequence(s, start, shift) ==
    /\ Len(s) >= 3
    /\ s[1] = start
    /\ s[Len(s)] = 106
    /\ \A k \in 1..Len(s) : s[k] >= 0 /\ s[k] <= 106
    /\ s[Len(s) - 1] =
          (start + SumSeq([k \in 1..(Len(s) - 3) |-> s[k + 1] * (k + shift)])) % 103

\* C33 as stated: the Code128 result is the widths of [Start, payload
\* symbols.., checksum, Stop] concatenated in order, Start the start code of
\* the initial code set, the checksum (start + sum of value_i *
\* (position_i + 1)) mod 103 with position_i the 1-based position.
C33_ChecksumWeightsPositionPlusOne ==
    Code128Called =>
       /\ enc_out.some
       /\ Len(enc_out.runs) % 6 = 1
       /\ IsCode128Sequence(Symbols(enc_out.runs), StartOf(enc_data), 1)

\* C33 amended: the Code128 result is the widths of [Start, payload
\* symbols.., checksum, Stop] concatenated in order, Start the start code of
\* the initial code set, the checksum (start + sum of value_i * position_i)
\* mod 103 with position_i the 1-based position; a code set B payload gives
\* the payload symbols byte - 32.
C33_ChecksumWeightsPosition ==
    Code128Called =>
       /\ enc_out.some
       /\ Len(enc_out.runs) % 6 = 1
       /\ IsCode128Sequence(Symbols(enc_out.runs), StartOf(enc_data), 0)
       /\ PlainB(enc_data) =>
             SubSeq(Symbols(enc_out.runs), 2, Len(enc_data) + 1)
                = [k \in 1..Len(enc_data) |-> enc_data[k] - 32]

\* "{C1": start C, the lone digit switches to code set B (100) and is
\* encoded there (17), checksum (105 + 100 * 1 + 17 * 2) mod 103, stop
C33_Witness ==
    /\ Code128Called /\ enc_data = <<123, 67, 49>> /\ enc_out.some
    /\ Symbols(enc_out.runs) = <<105, 100, 17, 33, 106>>

\* the second characters of the escape markers {A {B {C {1 {2 {3 {4 {{
MarkerChars == {65, 66, 67, 49, 50, 51, 52, 123}

\* the symbol code set B has for the marker '{' c: the switch symbols, FNC1
\* to FNC4, and the data symbol of the brace
MarkerSymbol(c) ==
    CASE c = 65 -> 101
      [] c = 66 -> 100
      [] c = 67 -> 99
      [] c = 49 -> 102
      [] c = 50 -> 97
      [] c = 51 -> 96
      [] c = 52 -> 100
      [] OTHER -> 123 - 32

\* the encoded payload is one code set B char followed by one escape marker
\* out of cs
CharThenMarker(cs) ==
    /\ Code128Called /\ Len(enc_data) = 3
    /\ PlainB(<<enc_data[1]>>) /\ enc_data[2] = 123 /\ enc_data[3] \in cs

\* the result is [Start B, the char, the marker's one symbol, checksum, Stop]
MarkerIsOneSymbol ==
    /\ enc_out.some
    /\ SymbolCount(enc_out.runs) = 5
    /\ Symbols(enc_out.runs)[2] = enc_data[1] - 32
    /\ Symbols(enc_out.runs)[3] = MarkerSymbol(enc_data[3])

\* C34: every escape marker of a Code128 payload is interpreted: {A {B {C
\* emit the switch symbol, {1 to {4 the function code, {{ one brace; the two
\* characters of a marker never appear as two data symbols.
C34_EveryMarkerInterpreted == CharThenMarker(MarkerChars) => MarkerIsOneSymbol

\* the markers the encoder's escape branch names are interpreted
HandledMarkersInterpreted == CharThenMarker({65, 66, 67, 49, 123}) => MarkerIsOneSymbol

\* '{' '2' is encoded as the two data symbols of '{' and '2'
MarkerEncodedLiterally ==
    CharThenMarker({50}) =>
       /\ SymbolCount(enc_out.runs) = 6
       /\ SubSeq(Symbols(enc_out.runs), 3, 4) = <<123 - 32, 50 - 32>>

\* the bytes '0'..'9' of x, in order
DigitsOf(x) == SelectSeq(x, IsAsciiDigit)

\* the check digit of the digit chars d: weights 3, 1, 3, .. from the rightmost
CheckDigitOf(d) ==
    (10 - (SumSeq([k \in 1..Len(d) |->
                      (d[k] - 48) * (IF (Len(d) - k) % 2 = 0 THEN 3 ELSE 1)]) % 10)) % 10

\* C35: the EAN encoder discards the non-digits of the payload; it returns a
\* result exactly when 7, 8, 12 or 13 digits remain: 7 or 12 digits get
\* their check digit appended, 8 or 13 digits are used as given whatever
\* their last digit is; every other digit count, zero included, gives
\* absence.
C35_EanByDigitCount ==
    EanCalled =>
       LET d == DigitsOf(enc_data)
       IN  /\ enc_out.some <=> Len(d) \in {7, 8, 12, 13}
           /\ Len(d) \in {8, 13} => enc_out.hri = d
           /\ Len(d) \in {7, 12} => enc_out.hri = Append(d, 48 + CheckDigitOf(d))
           /\ enc_out.some => SumSeq(enc_out.runs) = (IF Len(d) \in {7, 8} THEN 67 ELSE 95)

\* thirteen digits whose last is not the check digit of the first twelve
\* were encoded as given
C35_Witness ==
    /\ EanCalled /\ IsDigits(enc_data, 13)
    /\ enc_data[13] # 48 + CheckDigitOf(SubSeq(enc_data, 1, 12))
    /\ enc_out.some /\ enc_out.hri = enc_data

\* the five widths of the digits 0..9 in Interleaved 2 of 5
ItfWidths ==
    <<<<1, 1, 3, 3, 1>>, <<3, 1, 1, 1, 3>>, <<1, 3, 1, 1, 3>>, <<3, 3, 1, 1, 1>>,
      <<1, 1, 3, 1, 3>>, <<3, 1, 3, 1, 1>>, <<1, 3, 3, 1, 1>>, <<1, 1, 1, 3, 3>>,
      <<3, 1, 1, 3, 1>>, <<1, 3, 1, 3, 1>>>>

ItfCalled == enc_m = 70

\* the digits of x, with a zero in front when their count is odd
ItfPadded(x) == IF Len(DigitsOf(x)) % 2 = 1 THEN <<48>> \o DigitsOf(x) ELSE DigitsOf(x)

\* runs is [1,1,1,1], then for each pair of s the widths of its first digit
\* on the odd places and of its second on the even places, then [3,1,1]
IsItfRuns(runs, s) ==
    /\ Len(runs) = 4 + 10 * (Len(s) \div 2) + 3
    /\ SubSeq(runs, 1, 4) = <<1, 1, 1, 1>>
    /\ SubSeq(runs, Len(runs) - 2, Len(runs)) = <<3, 1, 1>>
    /\ \A j \in 1..(Len(s) \div 2) : \A t \in 1..5 :
          /\ runs[4 + 10 * (j - 1) + 2 * t - 1] = ItfWidths[s[2 * j - 1] - 48 + 1][t]
          /\ runs[4 + 10 * (j - 1) + 2 * t] = ItfWidths[s[2 * j] - 48 + 1][t]

\* C36: the ITF encoder discards non-digits, returns absence when no digit
\* remains, puts a zero in front of an odd count of digits (the label has
\* it too) and returns for the k pairs 4 + 10k + 3 runs: [1,1,1,1], each
\* pair interleaved (first digit on bars, second on spaces), [3,1,1].
C36_ItfInterleavesPairs ==
    ItfCalled =>
       /\ enc_out.some <=> DigitsOf(enc_data) # <<>>
       /\ enc_out.some =>
             /\ enc_out.hri = ItfPadded(enc_data)
             /\ IsItfRuns(enc_out.runs, ItfPadded(enc_data))

\* "1A90": the digits 190 padded to 0190, two pairs, 27 runs
C36_Witness ==
    /\ ItfCalled /\ enc_data = <<49, 65, 57, 48>> /\ enc_out.some
    /\ enc_out.hri = <<48, 49, 57, 48>>
    /\ Len(enc_out.runs) = 27
    /\ SubSeq(enc_out.runs, 5, 14) = <<1, 3, 1, 1, 3, 1, 3, 1, 1, 3>>

\* the kinds of the commands that announce one change of the state
ChangeKinds == StateChangingKinds \ {"Init"}

\* the step pushes one command: an Init command carries the state the step
\* started from, a command that announces a change carries the state the
\* step ends in, which holds the announced value
SnapshotTiming ==
    Len(commands') = Len(commands) + 1 =>
       LET new == commands'[Len(commands')]
       IN  /\ Kind(new) = "Init" => (Snapshot(new) = state /\ state' = DefaultState)
           /\ Kind(new) \in ChangeKinds => Snapshot(new) = state'
           /\ Kind(new) = "Bold" => Snapshot(new).is_bold = new[2].on
           /\ Kind(new) = "Align" => Snapshot(new).alignment = new[2].align
           /\ Kind(new) = "BarcodeHriPosition" => Snapshot(new).barcode_hri = new[2].pos

\* C37 as stated: the Init command carries the state before the reset, the
\* Bold, Align, Size and barcode configuration commands carry the state
\* after their change, and the command that follows an Init command carries
\* the default snapshot.
C37_FirstAfterResetCarriesDefault ==
    /\ [][SnapshotTiming]_vars
    /\ [](\A k \in 1..(Len(commands) - 1) :
            Kind(commands[k]) = "Init" => Snapshot(commands[k + 1]) = DefaultState)

\* C37 amended: the Init command carries the state before the reset, the
\* Bold, Align, Size and barcode configuration commands carry the state
\* after their change, and the command that follows an Init command carries
\* the default snapshot unless it announces a change itself (then it carries
\* the state after that change).
C37_SnapshotBeforeResetAfterChange ==
    /\ [][SnapshotTiming]_vars
    /\ [](\A k \in 1..(Len(commands) - 1) :
            (Kind(commands[k]) = "Init" /\ Kind(commands[k + 1]) \notin ChangeKinds)
               => Snapshot(commands[k + 1]) = DefaultState)

\* ESC E 1, ESC @, ESC E 1: the Init command still shows bold, and the Bold
\* command after it shows bold again, not the default
C37_Witness ==
    /\ data = <<27, 69, 1, 27, 64, 27, 69, 1>> /\ ~Running
    /\ Len(commands) = 3
    /\ Kind(commands[2]) = "Init" /\ Snapshot(commands[2]).is_bold
    /\ Kind(commands[3]) = "Bold" /\ Snapshot(commands[3]) = state
    /\ Snapshot(commands[3]) # DefaultState

\* the number of payload symbols the encoder produced for payload x
PayloadSymbols(x) == Len(AllCodes(x)) - 3

\* C38: every symbol value the Code128 encoder produces is at most 106, so
\* the table lookup never misses: the result is always present and has
\* 6 * (n + 2) + 7 runs that sum to 11 * (n + 2) + 13 modules, n being the
\* number of payload symbols.
C38_Code128AlwaysPresent ==
    Code128Called =>
       LET n == PayloadSymbols(enc_data)
       IN  /\ \A k \in 1..(n + 3) : AllCodes(enc_data)[k] >= 0 /\ AllCodes(enc_data)[k] <= 106
           /\ enc_out.some
           /\ Symbols(enc_out.runs) = AllCodes(enc_data)
           /\ Len(enc_out.runs) = 6 * (n + 2) + 7
           /\ SumSeq(enc_out.runs) = 11 * (n + 2) + 13
           /\ PlainB(enc_data) => n = Len(enc_data)

\* "{A" and a byte that is not UTF-8: start A and three times the symbol of
\* '?', 37 runs
C38_Witness ==
    /\ Code128Called /\ enc_data = <<123, 65, 200>> /\ enc_out.some
    /\ Symbols(enc_out.runs) = <<103, 31, 31, 31, 83, 106>>
    /\ Len(enc_out.runs) = 37 /\ SumSeq(enc_out.runs) = 68

\* the bytes at the cursor are GS V
GsCutAtCursor == Running /\ i + 1 < Len(data) /\ data[i + 1] = GS /\ data[i + 2] = 86

\* C40: GS V pushes exactly one Cut command and advances the cursor by
\* three whatever the byte after 'V' is and whether or not it is there: it
\* reads the two opcode bytes only, the byte after 'V' is never decoded on
\* its own, and decoding goes on at the byte after that one.
C40_CutSkipsOneByte ==
    [][GsCutAtCursor =>
          /\ i' = i + 3
          /\ commands' = Append(commands, <<state, [kind |-> "Cut"]>>)
          /\ state' = state
          /\ rd' = {i, i + 1}
          /\ Running' <=> i + 3 < Len(data)]_vars

\* GS V ESC @: the ESC is skipped as the argument of the cut and '@' is
\* decoded as text, no Init command is pushed
C40_Witness ==
    /\ data = <<29, 86, 27, 64>> /\ ~Running
    /\ Len(commands) = 2
    /\ Kind(commands[1]) = "Cut" /\ Kind(commands[2]) = "Text"

\* GS V as the last two bytes: the cursor ends one past the end of the buffer
CutAtEndPassesEnd == data = <<65, 29, 86>> /\ ~Running /\ i = Len(data) + 1 /\ op = "GsCut"

\* the active index is None exactly when the job list is empty, and is
\* otherwise an index into the list
ActiveIndexValid ==
    /\ active_job_idx.some <=> jobs # <<>>
    /\ active_job_idx.some => (active_job_idx.val >= 0 /\ active_job_idx.val < Len(jobs))

\* the step ran prune_jobs on the list `before` with active index act: the
\* list it leaves has at most max_jobs entries and is what remains of
\* `before` after dropping entries from its old end, and the job that was
\* active is active still if it is in the list
Pruned(before, act) ==
    /\ Len(jobs') <= max_jobs
    /\ \E d \in 0..Len(before) : jobs' = SubSeq(before, d + 1, Len(before))
    /\ (act.some /\ \E k \in 1..Len(jobs') : jobs'[k] = before[act.val + 1]) =>
          /\ active_job_idx'.some
          /\ jobs'[active_job_idx'.val + 1] = before[act.val + 1]

\* C39: after every job-history operation the active index is None exactly
\* when the job list is empty and otherwise a valid index; after prune_jobs
\* (on its own in update, and at the end of push_new_job) the list has at
\* most max_jobs entries, the oldest were dropped first, and the job that
\* was active stays active if it survived.
C39_ActiveIndexFollowsJobs ==
    /\ [](ActiveIndexValid)
    /\ [][/\ (job_op' = "prune" /\ jobs # <<>>) => Pruned(jobs, active_job_idx)
          /\ job_op' = "push" => Pruned(Append(jobs, next_job_id), SomeIdx(Len(jobs)))]_vars

\* three jobs were pushed, the second was selected, the limit was lowered to
\* two and prune_jobs dropped the first: the second job is active at index 0
C39_Witness ==
    /\ job_op = "prune" /\ jobs = <<2, 3>> /\ max_jobs = 2
    /\ active_job_idx = SomeIdx(0) /\ next_job_id = 4

====
